---- MODULE Spec2Model ----
(***************************************************************************)
(* Change detection and artifact streaming of the shopping assistant       *)
(* backend: StateTracker, ArtifactFormatter, ArtifactStreamer              *)
(* (backend/app/utils) and the turn loop of ShoppingAgentExecutor.execute  *)
(* (backend/app/agent_executor.py).                                        *)
(*                                                                         *)
(* Python values are records [kind, v]: kind is "absent" (the key is not   *)
(* in the dict), "none", "list", "dict", "str", "True" or "False"; v is    *)
(* the sequence of a list, the function of a dict, and <<>> otherwise.     *)
(***************************************************************************)
EXTENDS Integers, Sequences, FiniteSets, TLC

\* ------------------------------------------------------------ Python values

Absent == [kind |-> "absent", v |-> <<>>]
PyNone == [kind |-> "none", v |-> <<>>]
PyTrue == [kind |-> "True", v |-> <<>>]
PyFalse == [kind |-> "False", v |-> <<>>]
\* a non-empty string where a list or a dict is expected ("not a list")
PyStr == [kind |-> "str", v |-> <<>>]
EmptyList == [kind |-> "list", v |-> <<>>]
EmptyDict == [kind |-> "dict", v |-> <<>>]

PyList(s) == [kind |-> "list", v |-> s]

PyDict(d) == [kind |-> "dict", v |-> d]

PyBool(b) == IF b THEN PyTrue ELSE PyFalse

\* Python truthiness: bool(x)
Truthy(x) ==
    CASE x.kind = "none" -> FALSE
      [] x.kind = "absent" -> FALSE
      [] x.kind = "False" -> FALSE
      [] x.kind = "True" -> TRUE
      [] x.kind = "str" -> TRUE
      [] x.kind = "list" -> x.v # <<>>
      [] x.kind = "dict" -> DOMAIN x.v # {}

\* a or b
PyOr(a, b) == IF Truthy(a) THEN a ELSE b

\* a and b
PyAnd(a, b) == IF Truthy(a) THEN b ELSE a

\* dict.get(key, default) on a session state
Get(state, key, default) ==
    IF state[key].kind = "absent" THEN default ELSE state[key]

\* key in dict
Has(state, key) == state[key].kind # "absent"

\* d.get(field, default) on the function of a dict
Field(d, field, default) == IF field \in DOMAIN d THEN d[field] ELSE default

\* isinstance(x, list), isinstance(x, dict)
IsList(x) == x.kind = "list"

IsDict(x) == x.kind = "dict"

\* x.get(...) raises AttributeError unless x is a dict
GetRaises(x) == x.kind # "dict"

\* numbers that may also be None: [kind |-> "num", n] or [kind |-> "none"]
Num(n) == [kind |-> "num", n |-> n]

NoNum == [kind |-> "none", n |-> 0]

\* the outcome of a call that may raise: a Python value, or Raised
Raised == [kind |-> "raise", v |-> <<>>]

\* texts are sequences of fragments, so that an f-string is a concatenation;
\* an exception is the text of its message, and NoException is no exception
Text(s) == <<s>>

NoException == <<>>

Exception(message) == Text(message)

\* ------------------------------------------------------------ session state

Keys == {"current_results", "cart", "cart_items", "pending_order_summary",
         "current_order", "available_payment_methods", "selected_payment_method"}

Categories == {"products", "cart", "order_summary", "order",
               "payment_methods", "payment_method_selection"}

\* the keys a category's branch of stream_if_changed reads
KeysOf(c) ==
    CASE c = "products" -> {"current_results"}
      [] c = "cart" -> {"cart", "cart_items"}
      [] c = "order_summary" -> {"pending_order_summary"}
      [] c = "order" -> {"current_order"}
      [] c = "payment_methods" -> {"available_payment_methods"}
      [] c = "payment_method_selection" -> {"selected_payment_method"}

EmptyState == [k \in Keys |-> Absent]

\* product dicts of a search result
P1 == [id |-> "p1", name |-> "Shoe", price_usd_units |-> [kind |-> "num", n |-> 49]]
P2 == [id |-> "p2", name |-> "Hat"]

\* cart lines; L3 carries "subtotal": None
L1 == [cart_item_id |-> "c1", subtotal |-> [kind |-> "num", n |-> 49]]
L2 == [cart_item_id |-> "c2"]
L3 == [cart_item_id |-> "c3", subtotal |-> [kind |-> "none", n |-> 0]]

\* order summaries
S1 == [total_amount |-> 49, item_count |-> 1]
S2 == [total_amount |-> 98, item_count |-> 2, shipping_address |-> "123 Main St"]

\* orders: A1 and A2 are the same order in two statuses
A1 == [order_id |-> "A", status |-> "pending"]
A2 == [order_id |-> "A", status |-> "updated"]
B1 == [order_id |-> "B", status |-> "completed"]
N1 == [status |-> "pending"]

\* payment methods
M1 == [id |-> "pm_1", type |-> "credit_card"]
M2 == [id |-> "pm_2", type |-> "debit_card"]

\* the values a tool call may leave under each key (tools assign keys and
\* never delete them; no tool writes cart_items)
ValuesOf(key) ==
    CASE key = "current_results" ->
            {EmptyList, PyList(<<P1>>), PyList(<<P1, P2>>)}
      [] key = "cart" ->
            {EmptyList, PyList(<<L1>>), PyList(<<L1, L2>>), PyList(<<L3>>)}
      [] key = "cart_items" -> {}
      [] key = "pending_order_summary" ->
            {PyNone, EmptyDict, PyDict(S1), PyDict(S2)}
      [] key = "current_order" ->
            {PyNone, EmptyDict, PyDict(A1), PyDict(A2), PyDict(B1)}
      [] key = "available_payment_methods" ->
            {EmptyList, PyList(<<M1>>), PyList(<<M1, M2>>)}
      [] key = "selected_payment_method" ->
            {PyNone, PyDict(M1), PyDict(M2)}

\* the session states a turn starts from: a new session, the unit tests'
\* fixture, and sessions that earlier turns left populated
FixtureState ==
    [EmptyState EXCEPT !["current_results"] = EmptyList,
                       !["cart"] = EmptyList,
                       !["current_order"] = PyNone,
                       !["pending_order_summary"] = PyNone,
                       !["available_payment_methods"] = EmptyList,
                       !["selected_payment_method"] = PyNone]

PopulatedState ==
    [EmptyState EXCEPT !["current_results"] = PyList(<<P1>>),
                       !["cart"] = PyList(<<L1>>),
                       !["current_order"] = PyDict(A1),
                       !["pending_order_summary"] = PyDict(S1),
                       !["available_payment_methods"] = PyList(<<M1>>),
                       !["selected_payment_method"] = PyDict(M1)]

LegacyState ==
    [EmptyState EXCEPT !["cart_items"] = PyList(<<L2>>),
                       !["current_order"] = PyDict(N1)]

InitialStates == {EmptyState, FixtureState, PopulatedState, LegacyState}

\* ------------------------------------------------------------ StateTracker

StateTracker(initial_state) ==
    [initial_products |-> Get(initial_state, "current_results", EmptyList),
     initial_cart |-> PyOr(Get(initial_state, "cart", PyNone),
                           Get(initial_state, "cart_items", EmptyList)),
     initial_order |-> Get(initial_state, "current_order", PyNone),
     initial_order_summary |-> Get(initial_state, "pending_order_summary", PyNone),
     initial_payment_methods |-> Get(initial_state, "available_payment_methods", EmptyList),
     initial_selected_payment_method |-> Get(initial_state, "selected_payment_method", PyNone)]

\* each predicate returns the Python value the expression evaluates to
has_products_changed(t, current_state) ==
    LET current_results == Get(current_state, "current_results", EmptyList)
    IN  PyAnd(current_results, PyBool(current_results # t.initial_products))

has_cart_changed_always(t, current_state) == PyTrue

has_cart_changed(t, current_state) ==
    LET current_cart == PyOr(Get(current_state, "cart", PyNone),
                             Get(current_state, "cart_items", EmptyList))
    IN  PyBool(current_cart # t.initial_cart)

has_order_changed_no_id_check(t, current_state) ==
    LET current_order == Get(current_state, "current_order", PyNone)
    IN  PyBool(Truthy(current_order) /\ current_order # t.initial_order)

has_order_changed(t, current_state) ==
    LET current_order == Get(current_state, "current_order", PyNone)
    IN  IF ~Truthy(current_order) \/ current_order = t.initial_order
        THEN PyFalse
        ELSE IF ~Truthy(t.initial_order)
        THEN PyTrue
        ELSE IF GetRaises(current_order) \/ GetRaises(t.initial_order)
        THEN Raised
        \* .get("order_id") of a dict without the field is None
        ELSE PyBool(Field(current_order.v, "order_id", "None")
                    # Field(t.initial_order.v, "order_id", "None"))

has_order_summary_changed(t, current_state) ==
    LET current_order_summary == Get(current_state, "pending_order_summary", PyNone)
    IN  PyBool(current_order_summary.kind # "none"
               /\ current_order_summary # t.initial_order_summary)

has_payment_methods_changed(t, current_state) ==
    LET current_payment_methods ==
            Get(current_state, "available_payment_methods", EmptyList)
    IN  PyAnd(current_payment_methods,
              PyBool(current_payment_methods # t.initial_payment_methods))

has_payment_method_selection_changed(t, current_state) ==
    LET current_selected == Get(current_state, "selected_payment_method", PyNone)
    IN  PyAnd(current_selected,
              PyBool(current_selected # t.initial_selected_payment_method))

\* ------------------------------------------------------------ ArtifactFormatter

\* floats are kept in hundredths: float(n) is n * PriceScale
PriceScale == 100

ToFloat(n) == n * PriceScale

format_product(product) ==
    LET price_usd_units == Field(product, "price_usd_units", NoNum)
    IN  [id |-> Field(product, "id", ""),
         name |-> Field(product, "name", ""),
         description |-> Field(product, "description", ""),
         image_url |-> IF Field(product, "product_image_url", "") # ""
                       THEN product["product_image_url"]
                       ELSE Field(product, "picture", ""),
         price |-> IF price_usd_units.kind = "num" /\ price_usd_units.n # 0
                   THEN ToFloat(price_usd_units.n) ELSE 0,
         price_usd_units |-> price_usd_units,
         distance |-> Field(product, "distance", 0)]

format_products(products_list) ==
    [i \in 1..Len(products_list) |-> format_product(products_list[i])]

RECURSIVE SumSubtotals(_)
SumSubtotals(items) ==
    IF items = <<>> THEN 0
    ELSE Field(Head(items), "subtotal", Num(0)).n + SumSubtotals(Tail(items))

\* sum() raises TypeError on an item whose subtotal is None
SubtotalRaises(items) ==
    \E i \in 1..Len(items) : Field(items[i], "subtotal", Num(0)).kind = "none"

format_cart_empty_ok(cart_state) ==
    LET cart_data == PyOr(Get(cart_state, "cart", PyNone),
                          Get(cart_state, "cart_items", EmptyList))
    IN  PyDict([type |-> "cart", items |-> cart_data.v,
                total_items |-> Len(cart_data.v), subtotal |-> 0])

format_cart(cart_state) ==
    LET cart_data == PyOr(Get(cart_state, "cart", PyNone),
                          Get(cart_state, "cart_items", PyNone))
    IN  IF ~Truthy(cart_data) THEN PyNone
        ELSE IF IsList(cart_data)
        THEN IF SubtotalRaises(cart_data.v) THEN Raised
             ELSE PyDict([type |-> "cart",
                          items |-> cart_data.v,
                          total_items |-> Len(cart_data.v),
                          subtotal |-> SumSubtotals(cart_data.v)])
        ELSE PyNone

format_order_summary(summary_state) ==
    LET summary_data == Get(summary_state, "pending_order_summary", PyNone)
    IN  IF ~Truthy(summary_data) \/ summary_data.kind = "none" \/ ~IsDict(summary_data)
        THEN PyNone
        ELSE PyDict([type |-> "order_summary",
                     items |-> Field(summary_data.v, "items", <<>>),
                     total_amount |-> Field(summary_data.v, "total_amount", 0),
                     shipping_address |-> Field(summary_data.v, "shipping_address", ""),
                     item_count |-> Field(summary_data.v, "item_count", 0)])

format_order(order_state) ==
    LET order_data == Get(order_state, "current_order", PyNone)
    IN  IF ~Truthy(order_data) THEN PyNone
        ELSE IF GetRaises(order_data) THEN Raised
        ELSE PyDict([type |-> "order",
                     order_id |-> Field(order_data.v, "order_id", ""),
                     status |-> Field(order_data.v, "status", ""),
                     items |-> Field(order_data.v, "items", <<>>),
                     total_amount |-> Field(order_data.v, "total_amount", 0),
                     shipping_address |-> Field(order_data.v, "shipping_address", ""),
                     created_at |-> Field(order_data.v, "created_at", "")])

\* the methods class ArtifactFormatter defines; looking up any other
\* attribute on it raises AttributeError
FormatterMethods == {"format_products", "format_cart", "format_order_summary",
                     "format_order"}

format_payment_methods(payment_state) ==
    IF "format_payment_methods" \in FormatterMethods THEN PyNone ELSE Raised

format_payment_method_selection(selection_state) ==
    IF "format_payment_method_selection" \in FormatterMethods THEN PyNone ELSE Raised

\* ------------------------------------------------------------ ArtifactStreamer

VARIABLES
    session_state,  \* the session's state mapping, mutated by the Runner's tools
    initial_state,  \* the state mapping the turn's snapshot was taken from
    tracker,        \* the initial_* values of the turn
    sent_flags,     \* the sent flag of each category
    artifacts,      \* what add_artifact has pushed to the task channel, in order
    errors,         \* the artifact types logger.error has reported
    mutations,      \* steps of the Runner so far (tool-call mutations, events)
    request,        \* the inbound request of execute(); the call a cart tool serves
    session,        \* whether the session service holds the session
    pc,             \* where execute() is
    task_state,     \* the task's state on the task channel
    statuses,       \* the status updates pushed to the task channel, in order
    last_function_name,
    image,          \* the image seeded into the session state
    exception,      \* the exception execute() has caught, or NoException
    history,        \* the artifacts of the session's earlier turns, one entry a turn
    heap,           \* the list and dict objects of the interpreter, by address
    cart_items,     \* the rows of the cart_items table
    orders,         \* the rows of the orders table
    payments,       \* the rows of the payments table
    mandates,       \* the rows of the mandates table
    returned        \* how many calls of each checkout or payment tool have returned

\* how many steps (tool-call mutations, events) the Runner takes in a turn
MaxMutations == 2

NoFlags == [c \in Categories |-> FALSE]

\* the fixed order of ensure_all_sent
SweepOrder == <<"products", "cart", "order_summary", "order",
                "payment_methods", "payment_method_selection">>

\* the condition guarding the category's branch: key present and changed
\* (a Python value, or Raised)
Changed(t, artifact_type, state) ==
    CASE artifact_type = "products" ->
            IF Has(state, "current_results")
            THEN has_products_changed(t, state) ELSE PyFalse
      [] artifact_type = "cart" ->
            IF Has(state, "cart") \/ Has(state, "cart_items")
            THEN has_cart_changed(t, state) ELSE PyFalse
      [] artifact_type = "order_summary" ->
            IF Has(state, "pending_order_summary")
            THEN has_order_summary_changed(t, state) ELSE PyFalse
      [] artifact_type = "order" ->
            IF Has(state, "current_order")
            THEN LET changed == has_order_changed(t, state)
                     current_order == Get(state, "current_order", PyNone)
                 IN  IF changed = Raised \/ ~Truthy(changed) THEN changed
                     \* the streamer repeats the order_id check
                     ELSE IF ~Truthy(t.initial_order) THEN PyTrue
                     ELSE IF GetRaises(current_order) \/ GetRaises(t.initial_order)
                     THEN Raised
                     ELSE PyBool(Field(current_order.v, "order_id", "None")
                                 # Field(t.initial_order.v, "order_id", "None"))
            ELSE PyFalse
      [] artifact_type = "payment_methods" ->
            IF Has(state, "available_payment_methods")
            THEN has_payment_methods_changed(t, state) ELSE PyFalse
      [] artifact_type = "payment_method_selection" ->
            IF Has(state, "selected_payment_method")
            THEN has_payment_method_selection_changed(t, state) ELSE PyFalse

\* the payload the category's branch hands to add_artifact (PyNone or an
\* empty list: nothing to send; Raised: the formatter raised)
Payload(artifact_type, state) ==
    CASE artifact_type = "products" ->
            LET formatted_products ==
                    format_products(Get(state, "current_results", EmptyList).v)
            IN  IF formatted_products = <<>> THEN PyNone
                ELSE PyDict([type |-> "product_list", products |-> formatted_products])
      [] artifact_type = "cart" -> format_cart(state)
      [] artifact_type = "order_summary" -> format_order_summary(state)
      [] artifact_type = "order" -> format_order(state)
      [] artifact_type = "payment_methods" -> format_payment_methods(state)
      [] artifact_type = "payment_method_selection" ->
            format_payment_method_selection(state)

\* the short-circuit on the sent flag, before any formatting work
AlreadySent_ignored(flags, artifact_type) == FALSE

AlreadySent(flags, artifact_type) == flags[artifact_type]

\* the except clause: the error is logged, nothing is sent, no flag is set
OnException_flagged(flags, artifact_type) ==
    [ret |-> FALSE, exc |-> "caught", pushed |-> <<>>,
     flags |-> [flags EXCEPT ![artifact_type] = TRUE]]

OnException(flags, artifact_type) ==
    [ret |-> FALSE, exc |-> "caught", pushed |-> <<>>, flags |-> flags]

\* one call of stream_if_changed: add_ok says whether updater.add_artifact
\* succeeds or raises. The result: the return value, what became of an
\* exception ("none", or "caught" by the except clause and logged), the
\* artifacts pushed (none or one) and the flags afterwards.
stream_if_changed(t, flags, artifact_type, state, add_ok) ==
    LET none == [ret |-> FALSE, exc |-> "none", pushed |-> <<>>, flags |-> flags]
        fail == OnException(flags, artifact_type)
    IN  IF AlreadySent(flags, artifact_type) THEN none
        ELSE LET changed == Changed(t, artifact_type, state)
             IN  IF changed = Raised THEN fail
                 ELSE IF ~Truthy(changed) THEN none
                 ELSE LET data == Payload(artifact_type, state)
                      IN  IF data = Raised THEN fail
                          ELSE IF ~Truthy(data) THEN none
                          ELSE IF ~add_ok THEN fail
                          ELSE [ret |-> TRUE, exc |-> "none",
                                pushed |-> <<[name |-> artifact_type, data |-> data.v]>>,
                                flags |-> [flags EXCEPT ![artifact_type] = TRUE]]

\* ensure_all_sent: stream_if_changed for the categories from position i on,
\* in the fixed order; failing is the set of categories whose add_artifact raises
RECURSIVE ensure_all_sent(_, _, _, _, _)
ensure_all_sent(t, flags, state, failing, i) ==
    IF i > Len(SweepOrder) THEN [pushed |-> <<>>, flags |-> flags, logged |-> {}]
    ELSE LET r == stream_if_changed(t, flags, SweepOrder[i], state,
                                    SweepOrder[i] \notin failing)
             rest == ensure_all_sent(t, r.flags, state, failing, i + 1)
         IN  [pushed |-> r.pushed \o rest.pushed,
              flags |-> rest.flags,
              logged |-> (IF r.exc = "caught" THEN {SweepOrder[i]} ELSE {})
                         \cup rest.logged]

vars == <<session_state, initial_state, tracker, sent_flags, artifacts, errors,
          mutations, request, session, pc, task_state, statuses,
          last_function_name, image, exception, history, heap, cart_items,
          orders, payments, mandates, returned>>

\* the tables of orders, payments and mandates, and the calls counted
ledgerVars == <<orders, payments, mandates, returned>>

\* what the executors leave alone
storeVars == <<heap, cart_items, ledgerVars>>

\* no object has been allocated, no row has been written
NoHeap == <<>>

NoCartItems == <<>>

\* the tools of the checkout agent and of the payment agent
CheckoutTools == {"prepare_order_summary", "create_order", "cancel_order",
                  "select_payment_method", "create_cart_mandate",
                  "create_payment_mandate", "process_payment", "refund_payment",
                  "legacy_create_order"}

NoReturns == [tool \in CheckoutTools |-> 0]

\* what the streamer's own specification leaves alone
executorVars == <<request, session, pc, task_state, statuses, last_function_name,
                  image, exception, history, storeVars>>

NoRequest == [message |-> FALSE, file |-> "none", decodable |-> TRUE,
              mime |-> "", size |-> 0]

\* a turn: the tracker snapshots the state, the streamer starts with no flag set
Init ==
    /\ session_state \in InitialStates
    /\ initial_state = session_state
    /\ tracker = StateTracker(session_state)
    /\ sent_flags = NoFlags
    /\ artifacts = <<>>
    /\ errors = {}
    /\ mutations = 0
    /\ request = NoRequest
    /\ session = "stored"
    /\ pc = "streamer"
    /\ task_state = "working"
    /\ statuses = <<>>
    /\ last_function_name = "None"
    /\ image = "None"
    /\ exception = NoException
    /\ history = <<>>
    /\ heap = NoHeap
    /\ cart_items = NoCartItems
    /\ orders = <<>>
    /\ payments = <<>>
    /\ mandates = <<>>
    /\ returned = NoReturns

\* a tool of the Runner writes one key of the session state
Mutate ==
    /\ mutations < MaxMutations
    /\ \E key \in Keys : \E value \in ValuesOf(key) :
          /\ value # session_state[key]
          /\ session_state' = [session_state EXCEPT ![key] = value]
    /\ mutations' = mutations + 1
    /\ UNCHANGED <<initial_state, tracker, sent_flags, artifacts, errors>>
    /\ UNCHANGED executorVars

StreamIfChanged ==
    \E artifact_type \in Categories, add_ok \in BOOLEAN :
        LET r == stream_if_changed(tracker, sent_flags, artifact_type,
                                   session_state, add_ok)
        IN  /\ sent_flags' = r.flags
            /\ artifacts' = artifacts \o r.pushed
            /\ errors' = IF r.exc = "caught" THEN errors \cup {artifact_type} ELSE errors
            /\ UNCHANGED <<session_state, initial_state, tracker, mutations>>
            /\ UNCHANGED executorVars

EnsureAllSent ==
    \E failing \in {{}} \cup {{c} : c \in Categories} :
        LET r == ensure_all_sent(tracker, sent_flags, session_state, failing, 1)
        IN  /\ sent_flags' = r.flags
            /\ artifacts' = artifacts \o r.pushed
            /\ errors' = errors \cup r.logged
            /\ UNCHANGED <<session_state, initial_state, tracker, mutations>>
            /\ UNCHANGED executorVars

Next == Mutate \/ StreamIfChanged \/ EnsureAllSent

Spec == Init /\ [][Next]_vars

\* ------------------------------------------------------------ claims: the streamer

\* how many artifacts named name the task channel has received
Count(log, name) == Cardinality({i \in 1..Len(log) : log[i].name = name})

\* the value of a category's slice as the tracker reads it from a state
Slice(artifact_type, state) ==
    CASE artifact_type = "products" -> Get(state, "current_results", EmptyList)
      [] artifact_type = "cart" ->
            PyOr(Get(state, "cart", PyNone), Get(state, "cart_items", EmptyList))
      [] artifact_type = "order_summary" -> Get(state, "pending_order_summary", PyNone)
      [] artifact_type = "order" -> Get(state, "current_order", PyNone)
      [] artifact_type = "payment_methods" ->
            Get(state, "available_payment_methods", EmptyList)
      [] artifact_type = "payment_method_selection" ->
            Get(state, "selected_payment_method", PyNone)

\* the value the tracker captured for the category at construction
Captured(t, artifact_type) ==
    CASE artifact_type = "products" -> t.initial_products
      [] artifact_type = "cart" -> t.initial_cart
      [] artifact_type = "order_summary" -> t.initial_order_summary
      [] artifact_type = "order" -> t.initial_order
      [] artifact_type = "payment_methods" -> t.initial_payment_methods
      [] artifact_type = "payment_method_selection" -> t.initial_selected_payment_method

\* the sets of categories whose add_artifact raises during one sweep
Failings == {{}} \cup {{c} : c \in Categories}

Call(artifact_type, add_ok) ==
    stream_if_changed(tracker, sent_flags, artifact_type, session_state, add_ok)

Sweep(failing) == ensure_all_sent(tracker, sent_flags, session_state, failing, 1)

\* the call returned a truthy value and did not raise
Ok(x) == x # Raised /\ Truthy(x)

NoOp(r) == r.ret = FALSE /\ r.pushed = <<>> /\ r.flags = sent_flags

\* C1: at most one artifact of each category reaches the task channel, and
\* once a category's flag is set, a further stream_if_changed for it (with the
\* current state or any other, add_artifact succeeding or not) returns False,
\* pushes nothing and changes no flag; a further sweep pushes nothing for it.
C1_AtMostOncePerTurn ==
    /\ \A c \in Categories :
          /\ Count(artifacts, c) <= 1
          /\ sent_flags[c] =>
                \A add_ok \in BOOLEAN, state \in InitialStates \cup {session_state} :
                    LET r == stream_if_changed(tracker, sent_flags, c, state, add_ok)
                    IN  NoOp(r)
    /\ \A failing \in Failings :
          LET swept == Sweep(failing)
          IN  \A c \in Categories : sent_flags[c] => Count(swept.pushed, c) = 0

\* a category was sent and its state has changed again since: a further call
\* would find a changed, formattable value other than the one sent
C1_Witness ==
    \E c \in Categories, i \in 1..Len(artifacts) :
        /\ artifacts[i].name = c
        /\ sent_flags[c]
        /\ Ok(Changed(tracker, c, session_state))
        /\ Ok(Payload(c, session_state))
        /\ Payload(c, session_state).v # artifacts[i].data

\* C2: while a category's slice equals by value what the tracker captured,
\* stream_if_changed for it returns False, pushes nothing and leaves the flags
\* alone, and a sweep pushes nothing for it and leaves its flag alone.
C2_ChangeGating ==
    /\ \A c \in Categories :
          Slice(c, session_state) = Captured(tracker, c) =>
              \A add_ok \in BOOLEAN : NoOp(Call(c, add_ok))
    /\ \A failing \in Failings :
          LET swept == Sweep(failing)
          IN  \A c \in Categories :
                  Slice(c, session_state) = Captured(tracker, c) =>
                      /\ Count(swept.pushed, c) = 0
                      /\ swept.flags[c] = sent_flags[c]

\* the Runner has changed a category away from and back to its non-empty
\* captured value, and other artifacts have been pushed meanwhile
C2_Witness ==
    \E c \in Categories :
        /\ Truthy(Slice(c, session_state))
        /\ Slice(c, session_state) = Captured(tracker, c)
        /\ mutations = MaxMutations
        /\ session_state = initial_state
        /\ Count(artifacts, c) = 0
        /\ artifacts # <<>>

\* C3 as claimed, taken in its most favourable reading (the value is
\* non-empty and the tracker reports it as changed): whenever a category's
\* slice differs from the captured value and the category has not been sent,
\* ensure_all_sent (every add_artifact succeeding) pushes exactly one
\* artifact of that name and sets the category's flag.
C3_EventualDelivery ==
    \A c \in Categories :
        (/\ Slice(c, session_state) # Captured(tracker, c)
         /\ Truthy(Slice(c, session_state))
         /\ Changed(tracker, c, session_state) = PyTrue
         /\ ~sent_flags[c]) =>
            /\ Count(Sweep({}).pushed, c) = 1
            /\ Sweep({}).flags[c]

\* C5 as claimed: a non-empty list of payment methods that differs from the
\* snapshot is pushed by stream_if_changed("payment_methods"), a selected
\* payment method that is a dict differing from the snapshot by
\* stream_if_changed("payment_method_selection"); each returns True, pushes
\* one artifact of its name and sets its flag.
C5_PaymentArtifacts ==
    \A c \in {"payment_methods", "payment_method_selection"} :
        LET value == Slice(c, session_state)
            r == Call(c, TRUE)
        IN  (Truthy(value) /\ value # Captured(tracker, c) /\ ~sent_flags[c]) =>
                /\ r.ret = TRUE
                /\ Count(r.pushed, c) = 1
                /\ r.flags[c]

\* order_id of an order dict (None when it has none), and of an order payload
\* (which carries "" for an order without one)
OrderId(order) == Field(order, "order_id", "None")

PayloadOrderId(data) == IF data.order_id = "" THEN "None" ELSE data.order_id

\* C6: while the snapshot holds an order and current_order carries its
\* order_id, has_order_changed is False and stream_if_changed("order") is a
\* no-op, so no order artifact pushed in the turn carries the snapshot order's
\* order_id; when the snapshot holds no order, or the order_id differs, a
\* non-empty current_order counts as changed.
C6_OrderIdGuard ==
    LET current_order == Get(session_state, "current_order", PyNone)
        initial_order == tracker.initial_order
        same_id == /\ Truthy(initial_order)
                   /\ IsDict(current_order)
                   /\ OrderId(current_order.v) = OrderId(initial_order.v)
    IN  /\ (Truthy(current_order) /\ same_id) =>
              /\ has_order_changed(tracker, session_state) = PyFalse
              /\ \A add_ok \in BOOLEAN : NoOp(Call("order", add_ok))
        /\ (Truthy(current_order) /\ ~same_id) =>
              has_order_changed(tracker, session_state) = PyTrue
        /\ \A i \in 1..Len(artifacts) :
              (artifacts[i].name = "order" /\ Truthy(initial_order)) =>
                  PayloadOrderId(artifacts[i].data) # OrderId(initial_order.v)

\* the snapshot's order has come back with another status, and a different
\* order was pushed earlier in the turn
C6_Witness ==
    /\ tracker.initial_order = PyDict(A1)
    /\ session_state["current_order"] = PyDict(A2)
    /\ Count(artifacts, "order") = 1

\* C7: with a non-empty cart in the snapshot and an empty cart now,
\* has_cart_changed is True but stream_if_changed("cart") returns False, pushes
\* nothing and changes no flag; and while the cart flag is unset, a call with
\* a non-empty cart that differs from the snapshot (one format_cart accepts,
\* add_artifact succeeding) pushes the cart artifact and sets the flag.
C7_CartClearVeto ==
    LET current_cart == Slice("cart", session_state)
    IN  /\ (Truthy(tracker.initial_cart) /\ ~Truthy(current_cart)) =>
              /\ has_cart_changed(tracker, session_state) = PyTrue
              /\ \A add_ok \in BOOLEAN : NoOp(Call("cart", add_ok))
        /\ (/\ ~sent_flags["cart"]
            /\ Truthy(current_cart)
            /\ current_cart # tracker.initial_cart
            /\ format_cart(session_state) # Raised) =>
              LET r == Call("cart", TRUE)
              IN  r.ret = TRUE /\ Count(r.pushed, "cart") = 1 /\ r.flags["cart"]

\* the cart of the snapshot was emptied and filled again with other lines,
\* and the refilled cart has been pushed
C7_Witness ==
    /\ Truthy(tracker.initial_cart)
    /\ mutations = MaxMutations
    /\ Truthy(Slice("cart", session_state))
    /\ Slice("cart", session_state) # tracker.initial_cart
    /\ Count(artifacts, "cart") = 1
    /\ "cart" \notin errors

\* C8: a call in which the formatter or add_artifact raises returns False
\* with the exception caught, pushes nothing and changes no flag; a sweep in
\* which the add_artifact of one category (one the sweep has to push)
\* raises pushes for the other categories what it pushes when nothing raises; and a category whose earlier call
\* raised is pushed by a later call whose formatting and add_artifact succeed.
C8_ExceptionsAreLocal ==
    LET swept == Sweep({}).pushed
    IN
    \A c \in Categories :
        /\ \A add_ok \in BOOLEAN :
              LET r == Call(c, add_ok)
              IN  /\ r.exc \in {"none", "caught"}
                  /\ r.exc = "caught" => NoOp(r)
        /\ LET others(log) == SelectSeq(log, LAMBDA a : a.name # c)
           IN  Count(swept, c) > 0 => others(Sweep({c}).pushed) = others(swept)
        /\ (/\ c \in errors
            /\ ~sent_flags[c]
            /\ Ok(Changed(tracker, c, session_state))
            /\ Ok(Payload(c, session_state))) =>
              LET r == Call(c, TRUE)
              IN  r.ret = TRUE /\ Count(r.pushed, c) = 1 /\ r.flags[c]

\* a category whose first attempt raised was pushed by a later one
C8_Witness ==
    \E c \in Categories : c \in errors /\ Count(artifacts, c) = 1 /\ sent_flags[c]

\* ------------------------------------------------------------ ShoppingAgentExecutor.execute

\* tool name -> status message (three of the table's entries)
TOOL_STATUS_MESSAGES ==
    [text_vector_search |-> "Searching for products...",
     add_to_cart |-> "Adding item to cart...",
     create_order |-> "Processing your order..."]

\* the function names of the Runner's function_call parts: tools of the
\* table, a tool the table does not list, and a call without a name
FunctionNames == DOMAIN TOOL_STATUS_MESSAGES \cup {"prepare_order_summary", "None"}

valid_types == {"image/jpeg", "image/png", "image/webp"}

\* the size limit of an image, in MB
max_size == 10

\* inbound requests. file is "none" (no file part), "bytes" (FileWithBytes),
\* "uri" (FileWithUri) or "empty" (a file part with neither); mime "" is a
\* file part without a MIME type; size is the decoded size in MB
Request(message, file, decodable, mime, size) ==
    [message |-> message, file |-> file, decodable |-> decodable,
     mime |-> mime, size |-> size]

Requests ==
    {NoRequest,
     Request(TRUE, "none", TRUE, "", 0),
     Request(TRUE, "bytes", TRUE, "image/png", max_size),
     Request(TRUE, "bytes", TRUE, "", 1),
     Request(TRUE, "bytes", TRUE, "image/gif", 1),
     Request(TRUE, "bytes", TRUE, "image/jpeg", max_size + 1),
     Request(TRUE, "bytes", FALSE, "image/jpeg", 1),
     Request(TRUE, "uri", TRUE, "image/jpeg", 1),
     Request(TRUE, "empty", TRUE, "", 0)}

\* the file part of the message: "image" (bytes accepted), "no_image", or
\* "raise" (ValueError)
ProcessFile(req) ==
    IF req.file = "bytes"
    THEN LET image_mime_type == IF req.mime # "" THEN req.mime ELSE "image/jpeg"
         IN  IF ~req.decodable THEN "raise"
             ELSE IF image_mime_type \notin valid_types THEN "raise"
             ELSE IF req.size > max_size THEN "raise"
             ELSE "image"
    ELSE IF req.file = "uri" THEN "raise"
    ELSE "no_image"

\* the values execute() keeps of the state at the start of the turn
Snapshot_of_new_session(state) ==
    [initial_products |-> EmptyList, initial_cart |-> EmptyList,
     initial_order |-> PyNone, initial_order_summary |-> PyNone]

Snapshot(state) ==
    [initial_products |-> Get(state, "current_results", EmptyList),
     initial_cart |-> PyOr(Get(state, "cart", PyNone),
                           Get(state, "cart_items", EmptyList)),
     initial_order |-> Get(state, "current_order", PyNone),
     initial_order_summary |-> Get(state, "pending_order_summary", PyNone)]

\* the categories execute() streams, in the order each check takes them
EventOrder_order_first == <<"products", "cart", "order", "order_summary">>

EventOrder == <<"products", "cart", "order_summary", "order">>

FinalOrder == <<"order_summary", "order">>

Streamed == {EventOrder[i] : i \in 1..Len(EventOrder)}

\* the inline change condition of a category; where is "event" (the check
\* after a non-final event), "final" (the final-response branch) or "sweep"
\* (after the Runner has finished, which tests no key for presence)
ExecChanged(t, artifact_type, state, where) ==
    CASE artifact_type = "products" ->
            LET current_results == Get(state, "current_results", EmptyList)
            IN  /\ where = "sweep" \/ Has(state, "current_results")
                /\ Truthy(current_results)
                /\ current_results # t.initial_products
      [] artifact_type = "cart" ->
            LET current_cart == PyOr(Get(state, "cart", PyNone),
                                     Get(state, "cart_items", EmptyList))
            IN  /\ where = "sweep" \/ Has(state, "cart") \/ Has(state, "cart_items")
                /\ current_cart # t.initial_cart
      [] artifact_type = "order_summary" ->
            LET current_order_summary == Get(state, "pending_order_summary", PyNone)
            IN  /\ where = "sweep" \/ Has(state, "pending_order_summary")
                /\ Truthy(current_order_summary)
                /\ current_order_summary # t.initial_order_summary
      [] artifact_type = "order" ->
            LET current_order == Get(state, "current_order", PyNone)
            IN  /\ where = "sweep" \/ Has(state, "current_order")
                /\ Truthy(current_order)
                /\ current_order # t.initial_order
                /\ \/ ~Truthy(t.initial_order)
                   \/ Field(current_order.v, "order_id", "None")
                         # Field(t.initial_order.v, "order_id", "None")

\* the categories from position i of order on, one after the other: a
\* category is pushed when its flag is unset, it changed and its formatter
\* returns data. A formatter that raises, and add_artifact for fail_at, raise:
\* the rest is skipped and raised is the exception. The sweep sets no flag.
RECURSIVE ExecCheck(_, _, _, _, _, _, _)
ExecCheck(t, flags, state, order, where, fail_at, i) ==
    IF i > Len(order) THEN [pushed |-> <<>>, flags |-> flags, raised |-> NoException]
    ELSE LET c == order[i]
             data == Payload(c, state)
             skip == ExecCheck(t, flags, state, order, where, fail_at, i + 1)
         IN  IF flags[c] \/ ~ExecChanged(t, c, state, where) THEN skip
             ELSE IF data = Raised
             THEN [pushed |-> <<>>, flags |-> flags, raised |-> Exception("TypeError")]
             ELSE IF ~Truthy(data) THEN skip
             ELSE IF c = fail_at
             THEN [pushed |-> <<>>, flags |-> flags, raised |-> Exception("add_artifact")]
             ELSE LET sent == IF where = "sweep" THEN flags
                              ELSE [flags EXCEPT ![c] = TRUE]
                      rest == ExecCheck(t, sent, state, order, where, fail_at, i + 1)
                  IN  [pushed |-> <<[name |-> c, data |-> data.v]>> \o rest.pushed,
                       flags |-> rest.flags,
                       raised |-> rest.raised]

\* the status message of the executor
status_message == "Processing your shopping request..."

\* update_status(TaskState.completed, ...) where the working status is due
Status_completed_at_once(state, message, final) ==
    [state |-> IF state = "working" THEN "completed" ELSE state,
     message |-> message, final |-> final]

\* a status update on the task channel
Status(state, message, final) == [state |-> state, message |-> message, final |-> final]

\* the streamer's bookkeeping of errors is not part of execute()
InitExec ==
    /\ request \in Requests
    /\ session \in {"missing", "stored"}
    /\ session_state \in (IF session = "missing" THEN {EmptyState} ELSE InitialStates)
    /\ initial_state = EmptyState
    /\ tracker = Snapshot(EmptyState)
    /\ sent_flags = NoFlags
    /\ artifacts = <<>>
    /\ errors = {}
    /\ mutations = 0
    /\ pc = "start"
    /\ task_state = "none"
    /\ statuses = <<>>
    /\ last_function_name = "None"
    /\ image = "None"
    /\ exception = NoException
    /\ history = <<>>
    /\ heap = NoHeap
    /\ cart_items = NoCartItems
    /\ orders = <<>>
    /\ payments = <<>>
    /\ mandates = <<>>
    /\ returned = NoReturns

\* the message check, the extraction of the file part and the enqueueing of
\* the task: all of it runs before the try block, so what raises here leaves
\* execute() as an exception
Receive ==
    /\ pc = "start"
    /\ \E enqueue_ok \in BOOLEAN :
          IF ~request.message \/ ProcessFile(request) = "raise"
          THEN pc' = "raised" /\ UNCHANGED task_state
          ELSE IF enqueue_ok
          THEN pc' = "accepted" /\ task_state' = "submitted"
          ELSE pc' = "raised" /\ UNCHANGED task_state
    /\ UNCHANGED <<session_state, initial_state, tracker, sent_flags, artifacts,
                   errors, mutations, request, session, statuses,
                   last_function_name, image, exception, history>>
    /\ UNCHANGED storeVars

\* the working status, the session (fetched, or created with the image in
\* its state), the image stored into the state, the flags and the snapshot
\* of the state at the start of the turn
Bootstrap ==
    /\ pc = "accepted"
    /\ \E outcome \in {"ok", "status_raises", "create_raises", "snapshot_raises"} :
          /\ outcome = "create_raises" => session = "missing"
          /\ IF outcome = "status_raises"
             THEN UNCHANGED <<task_state, statuses, session, image>>
             ELSE /\ task_state' = "working"
                  /\ statuses' = Append(statuses,
                        Status("working", Text(status_message), FALSE))
                  /\ IF outcome = "create_raises"
                     THEN UNCHANGED <<session, image>>
                     ELSE /\ session' = "stored"
                          /\ image' = IF ProcessFile(request) = "image"
                                      THEN "current_image_bytes" ELSE image
          /\ IF outcome = "ok"
             THEN /\ pc' = "running"
                  /\ initial_state' = session_state
                  /\ tracker' = Snapshot(session_state)
                  /\ UNCHANGED exception
             ELSE /\ pc' = "handler"
                  /\ exception' =
                        CASE outcome = "status_raises" -> Exception("update_status")
                          [] outcome = "create_raises" ->
                                Text("Failed to create session with id: ")
                                    \o Exception("create_session")
                          [] outcome = "snapshot_raises" -> Exception("get_session")
                  /\ UNCHANGED <<initial_state, tracker>>
    /\ sent_flags' = NoFlags
    /\ last_function_name' = "None"
    /\ UNCHANGED <<session_state, artifacts, errors, mutations, request, history>>
    /\ UNCHANGED storeVars

\* a tool of the Runner writes one key of the session state
RunnerMutate ==
    /\ pc = "running"
    /\ mutations < MaxMutations
    /\ \E key \in Keys : \E value \in ValuesOf(key) :
          /\ value # session_state[key]
          /\ session_state' = [session_state EXCEPT ![key] = value]
    /\ mutations' = mutations + 1
    /\ UNCHANGED <<initial_state, tracker, sent_flags, artifacts, errors, request,
                   session, pc, task_state, statuses, last_function_name, image,
                   exception, history>>
    /\ UNCHANGED storeVars

\* the content parts of an event: none, a text chunk, or a function call
Parts == {"none", "text"} \cup FunctionNames

\* one iteration of the loop over the Runner's events: the part of the
\* event, then the final-response branch or the check of the four
\* categories. fault names the call that raises in this iteration: "part"
\* (add_artifact of the text, update_status of the function call),
\* "get_session", or the category whose add_artifact raises
Event ==
    /\ pc = "running"
    /\ mutations < MaxMutations
    /\ \E part \in Parts, final \in BOOLEAN,
          fault \in {"none", "part", "get_session"} \cup Streamed :
          LET status_due == /\ part \in FunctionNames
                            /\ part # "None"
                            /\ part # last_function_name
                            /\ part \in DOMAIN TOOL_STATUS_MESSAGES
              part_raises == fault = "part" /\ (part = "text" \/ status_due)
              where == IF final THEN "final" ELSE "event"
              r == ExecCheck(tracker, sent_flags, session_state,
                             IF final THEN FinalOrder ELSE EventOrder,
                             where, fault, 1)
          IN  IF part_raises
              THEN /\ pc' = "handler"
                   /\ exception' = IF part = "text" THEN Exception("add_artifact")
                                   ELSE Exception("update_status")
                   /\ UNCHANGED <<artifacts, statuses, last_function_name, sent_flags>>
              ELSE /\ pc' = pc
                   /\ UNCHANGED exception
                   /\ statuses' = IF status_due
                                  THEN Append(statuses,
                                         Status("working",
                                                Text(TOOL_STATUS_MESSAGES[part]), FALSE))
                                  ELSE statuses
                   /\ last_function_name' = IF status_due THEN part
                                            ELSE last_function_name
                   /\ LET text == IF part = "text"
                                  THEN <<[name |-> "response", data |-> [text |-> "chunk"]]>>
                                  ELSE <<>>
                      IN  IF fault = "get_session"
                          THEN /\ artifacts' = artifacts \o text
                               /\ UNCHANGED sent_flags
                          ELSE /\ artifacts' = artifacts \o text \o r.pushed
                               /\ sent_flags' = r.flags
    /\ mutations' = mutations + 1
    /\ UNCHANGED <<session_state, initial_state, tracker, errors, request, session,
                   task_state, image, history>>
    /\ UNCHANGED storeVars

\* run_async raises
RunnerRaises ==
    /\ pc = "running"
    /\ pc' = "handler"
    /\ exception' = Exception("run_async")
    /\ UNCHANGED <<session_state, initial_state, tracker, sent_flags, artifacts,
                   errors, mutations, request, session, task_state, statuses,
                   last_function_name, image, history>>
    /\ UNCHANGED storeVars

\* the Runner has finished: the state is read once more and every category
\* not yet flagged is checked, outside any try block of its own
FinalSweep ==
    /\ pc = "running"
    /\ \E fault \in {"none", "get_session"} \cup Streamed :
          LET r == ExecCheck(tracker, sent_flags, session_state, EventOrder,
                             "sweep", fault, 1)
          IN  IF fault = "get_session"
              THEN /\ pc' = "handler"
                   /\ exception' = Exception("get_session")
                   /\ UNCHANGED artifacts
              ELSE /\ artifacts' = artifacts \o r.pushed
                   /\ pc' = IF r.raised # NoException THEN "handler" ELSE "completing"
                   /\ exception' = r.raised
    /\ UNCHANGED <<session_state, initial_state, tracker, sent_flags, errors,
                   mutations, request, session, task_state, statuses,
                   last_function_name, image, history>>
    /\ UNCHANGED storeVars

\* updater.complete(), tried again once when it raises; what the second
\* attempt raises is discarded
Complete ==
    /\ pc = "completing"
    /\ \E first_ok \in BOOLEAN, retry_ok \in BOOLEAN :
          IF first_ok \/ retry_ok
          THEN /\ task_state' = "completed"
               /\ statuses' = Append(statuses, Status("completed", <<>>, TRUE))
          ELSE UNCHANGED <<task_state, statuses>>
    /\ pc' = "done"
    /\ UNCHANGED <<session_state, initial_state, tracker, sent_flags, artifacts,
                   errors, mutations, request, session, last_function_name, image,
                   exception, history>>
    /\ UNCHANGED storeVars

\* the status of the except clause: f'Error: {e!s}', final
FailedStatus_not_final(e) == Status("failed", Text("Error: ") \o e, FALSE)

FailedStatus(e) == Status("failed", Text("Error: ") \o e, TRUE)

\* the except clause of execute(): the failed status, final; an update that
\* raises leaves execute() as an exception
OnError ==
    /\ pc = "handler"
    /\ \E update_ok \in BOOLEAN :
          IF update_ok
          THEN /\ task_state' = "failed"
               /\ statuses' = Append(statuses, FailedStatus(exception))
               /\ pc' = "done"
          ELSE /\ pc' = "raised"
               /\ UNCHANGED <<task_state, statuses>>
    /\ UNCHANGED <<session_state, initial_state, tracker, sent_flags, artifacts,
                   errors, mutations, request, session, last_function_name, image,
                   exception, history>>
    /\ UNCHANGED storeVars

NextExec ==
    \/ Receive
    \/ Bootstrap
    \/ RunnerMutate
    \/ Event
    \/ RunnerRaises
    \/ FinalSweep
    \/ Complete
    \/ OnError

SpecExec == InitExec /\ [][NextExec]_vars

\* ------------------------------------------------------------ claims: execute()

\* the value a category had when the turn started
TurnStart(artifact_type) == Slice(artifact_type, initial_state)

\* C4 as claimed, for values that are non-empty (and, for an order, carry
\* another order_id than the order of the turn's start): when execute() is
\* about to call complete(), each of the six categories whose value is
\* present and differs from its value at the start of the turn has had
\* exactly one artifact of its name pushed.
C4_SixCategoriesDelivered ==
    pc = "completing" =>
        \A c \in Categories :
            (/\ \E key \in KeysOf(c) : Has(session_state, key)
             /\ Truthy(Slice(c, session_state))
             /\ Slice(c, session_state) # TurnStart(c)
             /\ c = "order" => 
                   \/ ~Truthy(TurnStart(c))
                   \/ OrderId(Slice(c, session_state).v) # OrderId(TurnStart(c).v)) =>
                Count(artifacts, c) = 1

\* C9 as claimed: a run of execute() that has enqueued its task and returns
\* has left the task completed or failed; the completion call failing twice
\* does not leave it working.
C9_EndsTerminal ==
    (pc = "done" /\ task_state # "none") => task_state \in {"completed", "failed"}

\* the request is one that execute() is to refuse
BadRequest == ~request.message \/ ProcessFile(request) = "raise"

\* C10 as claimed: for a request without a message, or with a file part of
\* an unsupported type, too large, undecodable or given by URI, execute()
\* emits a final failed status and returns without raising.
C10_InputErrorsFailTheTask ==
    (BadRequest /\ pc # "start") =>
        /\ pc = "done"
        /\ task_state = "failed"
        /\ statuses # <<>>
        /\ statuses[Len(statuses)].state = "failed"
        /\ statuses[Len(statuses)].final

\* the positions of the failed status updates on the task channel
FailedStatuses == {i \in 1..Len(statuses) : statuses[i].state = "failed"}

a2a_format_product(product) ==
    LET price_usd_units == Field(product, "price_usd_units", NoNum)
    IN  [id |-> Field(product, "id", ""),
         name |-> Field(product, "name", ""),
         description |-> Field(product, "description", ""),
         image_url |-> IF Field(product, "product_image_url", "") # ""
                       THEN product["product_image_url"]
                       ELSE Field(product, "picture", ""),
         price |-> IF price_usd_units.kind = "num" /\ price_usd_units.n # 0
                   THEN ToFloat(price_usd_units.n) \div PriceScale ELSE 0,
         price_usd_units |-> price_usd_units,
         distance |-> Field(product, "distance", 0)]

a2a_format_products(products_list) ==
    [i \in 1..Len(products_list) |-> a2a_format_product(products_list[i])]

\* the categories a2a_executor streams, in the order it checks them
A2AOrder == <<"products", "cart", "order">>

\* the data a2a_executor pushes for a category: what its inline formatter
\* makes of the state, whatever the state was at the start of the turn; its
\* inline format_cart and format_order read as those of ArtifactFormatter
A2APayload(artifact_type, state) ==
    CASE artifact_type = "products" ->
            LET current_results == Get(state, "current_results", EmptyList)
            IN  IF ~Truthy(current_results) THEN PyNone
                ELSE PyDict([type |-> "product_list",
                             products |-> a2a_format_products(current_results.v)])
      [] artifact_type = "cart" -> format_cart(state)
      [] artifact_type = "order" -> format_order(state)

\* the categories from position i on; where is "event" (the check after a
\* non-final event, which tests the key for presence) or "sweep"
RECURSIVE A2ACheck(_, _, _, _, _)
A2ACheck(flags, state, where, fail_at, i) ==
    IF i > Len(A2AOrder) THEN [pushed |-> <<>>, flags |-> flags, raised |-> NoException]
    ELSE LET c == A2AOrder[i]
             data == A2APayload(c, state)
             skip == A2ACheck(flags, state, where, fail_at, i + 1)
         IN  IF flags[c] THEN skip
             ELSE IF where = "event" /\ ~\E key \in KeysOf(c) : Has(state, key) THEN skip
             ELSE IF data = Raised
             THEN [pushed |-> <<>>, flags |-> flags, raised |-> Exception("TypeError")]
             ELSE IF ~Truthy(data) THEN skip
             ELSE IF c = fail_at
             THEN [pushed |-> <<>>, flags |-> flags, raised |-> Exception("add_artifact")]
             ELSE LET sent == IF where = "sweep" THEN flags
                              ELSE [flags EXCEPT ![c] = TRUE]
                      rest == A2ACheck(sent, state, where, fail_at, i + 1)
                  IN  [pushed |-> <<[name |-> c, data |-> data.v]>> \o rest.pushed,
                       flags |-> rest.flags,
                       raised |-> rest.raised]

\* a2a_executor reads the text of the message only
InitA2A ==
    /\ request \in {NoRequest, Request(TRUE, "none", TRUE, "", 0)}
    /\ session \in {"missing", "stored"}
    /\ session_state \in (IF session = "missing" THEN {EmptyState} ELSE InitialStates)
    /\ initial_state = EmptyState
    /\ tracker = Snapshot(EmptyState)
    /\ sent_flags = NoFlags
    /\ artifacts = <<>>
    /\ errors = {}
    /\ mutations = 0
    /\ pc = "start"
    /\ task_state = "none"
    /\ statuses = <<>>
    /\ last_function_name = "None"
    /\ image = "None"
    /\ exception = NoException
    /\ history = <<>>
    /\ heap = NoHeap
    /\ cart_items = NoCartItems
    /\ orders = <<>>
    /\ payments = <<>>
    /\ mandates = <<>>
    /\ returned = NoReturns

\* the message check and the enqueueing of the task, before the try block
A2AReceive ==
    /\ pc = "start"
    /\ \E enqueue_ok \in BOOLEAN :
          IF ~request.message \/ ~enqueue_ok
          THEN pc' = "raised" /\ UNCHANGED task_state
          ELSE pc' = "accepted" /\ task_state' = "submitted"
    /\ UNCHANGED <<session_state, initial_state, tracker, sent_flags, artifacts,
                   errors, mutations, request, session, statuses,
                   last_function_name, image, exception, history>>
    /\ UNCHANGED storeVars

\* the working status and the session: a session is created only when the
\* lookup raises; a lookup that returns nothing is an error
A2ABootstrap ==
    /\ pc = "accepted"
    /\ \E outcome \in {"ok", "status_raises", "lookup_none", "create_raises"} :
          /\ outcome \in {"lookup_none", "create_raises"} => session = "missing"
          /\ IF outcome = "status_raises"
             THEN UNCHANGED <<task_state, statuses>>
             ELSE /\ task_state' = "working"
                  /\ statuses' = Append(statuses,
                        Status("working", Text(status_message), FALSE))
          /\ IF outcome = "ok"
             THEN /\ pc' = "running"
                  /\ session' = "stored"
                  /\ initial_state' = session_state
                  /\ UNCHANGED exception
             ELSE /\ pc' = "handler"
                  /\ exception' =
                        CASE outcome = "status_raises" -> Exception("update_status")
                          [] outcome = "create_raises" -> Exception("create_session")
                          [] outcome = "lookup_none" ->
                                Text("Failed to create or retrieve session with id: ")
                  /\ UNCHANGED <<session, initial_state>>
    /\ sent_flags' = NoFlags
    /\ UNCHANGED <<session_state, tracker, artifacts, errors, mutations, request,
                   last_function_name, image, history>>
    /\ UNCHANGED storeVars

\* one iteration of the loop: the text of the event, then, after a
\* non-final event, the check of the three categories
A2AEvent ==
    /\ pc = "running"
    /\ mutations < MaxMutations
    /\ \E part \in {"none", "text", "function_call"}, final \in BOOLEAN,
          fault \in {"none", "part", "get_session"} \cup {"products", "cart", "order"} :
          LET r == A2ACheck(sent_flags, session_state, "event", fault, 1)
              text == IF part = "text"
                      THEN <<[name |-> "response", data |-> [text |-> "chunk"]]>>
                      ELSE <<>>
          IN  IF fault = "part" /\ part = "text"
              THEN /\ pc' = "handler"
                   /\ exception' = Exception("add_artifact")
                   /\ UNCHANGED <<artifacts, sent_flags>>
              ELSE /\ pc' = pc
                   /\ UNCHANGED exception
                   /\ IF final \/ fault = "get_session"
                      THEN /\ artifacts' = artifacts \o text
                           /\ UNCHANGED sent_flags
                      ELSE /\ artifacts' = artifacts \o text \o r.pushed
                           /\ sent_flags' = r.flags
    /\ mutations' = mutations + 1
    /\ UNCHANGED <<session_state, initial_state, tracker, errors, request, session,
                   task_state, statuses, last_function_name, image, history>>
    /\ UNCHANGED storeVars

\* the Runner has finished: the final read of the state, the sweep over the
\* three categories and complete(), all inside the try block
A2AFinish ==
    /\ pc = "running"
    /\ \E fault \in {"none", "get_session", "complete"} \cup {"products", "cart", "order"} :
          LET r == A2ACheck(sent_flags, session_state, "sweep", fault, 1)
          IN  IF fault = "get_session"
              THEN /\ pc' = "handler"
                   /\ exception' = Exception("get_session")
                   /\ UNCHANGED <<artifacts, task_state, statuses>>
              ELSE /\ artifacts' = artifacts \o r.pushed
                   /\ IF r.raised # NoException
                      THEN /\ pc' = "handler"
                           /\ exception' = r.raised
                           /\ UNCHANGED <<task_state, statuses>>
                      ELSE IF fault = "complete"
                      THEN /\ pc' = "handler"
                           /\ exception' = Exception("complete")
                           /\ UNCHANGED <<task_state, statuses>>
                      ELSE /\ pc' = "done"
                           /\ task_state' = "completed"
                           /\ statuses' = Append(statuses, Status("completed", <<>>, TRUE))
                           /\ UNCHANGED exception
    /\ UNCHANGED <<session_state, initial_state, tracker, sent_flags, errors,
                   mutations, request, session, last_function_name, image, history>>
    /\ UNCHANGED storeVars

\* RunnerMutate, RunnerRaises and OnError are the same steps in both
\* executors: the Runner is the same and the except clauses are identical
NextA2A ==
    \/ A2AReceive
    \/ A2ABootstrap
    \/ RunnerMutate
    \/ A2AEvent
    \/ RunnerRaises
    \/ A2AFinish
    \/ OnError

SpecA2A == InitA2A /\ [][NextA2A]_vars

\* C12 as claimed: in the executor main.py wires in, a category whose value
\* is what it was when the turn started has no artifact pushed in the turn,
\* also when that value is non-empty.
C12_UnchangedNeverSent ==
    \A c \in {"products", "cart", "order"} :
        (pc \in {"running", "handler", "done", "raised"}
            /\ session_state = initial_state) =>
            Count(artifacts, c) = 0

\* ------------------------------------------------------------ StateTracker and object identity

\* A list or a dict is an object: a session state holds a reference to it,
\* and so does whatever was assigned from the state.  The heap maps the
\* addresses to the objects' contents.
Ref(at) == [kind |-> "ref", v |-> at]

IsObject(x) == x.kind \in {"list", "dict"}

\* the value a name or a key is bound to
Deref(h, x) == IF x.kind = "ref" THEN h[x.v] ELSE x

\* a session state that holds references, read by value
Load(h, state) == [k \in Keys |-> Deref(h, state[k])]

\* the same, each object together with its address
Tagged(h, state) ==
    [k \in Keys |->
        IF state[k].kind = "ref"
        THEN [kind |-> h[state[k].v].kind, v |-> h[state[k].v].v, at |-> state[k].v]
        ELSE state[k]]

\* what an attribute holds after an assignment: the reference to the
\* object, or the value itself where it is None or a fresh default
References(t) ==
    [f \in DOMAIN t |-> IF "at" \in DOMAIN t[f] THEN Ref(t[f].at) ELSE t[f]]

\* what the tracker's initial_* attributes read now
TrackerNow == [f \in DOMAIN tracker |-> Deref(heap, tracker[f])]

KeySeq == <<"current_results", "cart", "cart_items", "pending_order_summary",
            "current_order", "available_payment_methods", "selected_payment_method">>

\* a session state given by value, each of its lists and dicts an object of
\* its own
RECURSIVE Allocate(_, _, _)
Allocate(h, state, i) ==
    IF i > Len(KeySeq) THEN [heap |-> h, state |-> state]
    ELSE LET key == KeySeq[i]
         IN  IF IsObject(state[key])
             THEN Allocate(Append(h, state[key]),
                           [state EXCEPT ![key] = Ref(Len(h) + 1)], i + 1)
             ELSE Allocate(h, state, i + 1)

\* StateTracker(state) has just been constructed on the session's state
InitHeap ==
    /\ \E state \in InitialStates :
          /\ heap = Allocate(NoHeap, state, 1).heap
          /\ session_state = Allocate(NoHeap, state, 1).state
          /\ initial_state = state
    /\ tracker = References(StateTracker(Tagged(heap, session_state)))
    /\ sent_flags = NoFlags
    /\ artifacts = <<>>
    /\ errors = {}
    /\ mutations = 0
    /\ request = NoRequest
    /\ session = "stored"
    /\ pc = "streamer"
    /\ task_state = "working"
    /\ statuses = <<>>
    /\ last_function_name = "None"
    /\ image = "None"
    /\ exception = NoException
    /\ history = <<>>
    /\ cart_items = NoCartItems
    /\ orders = <<>>
    /\ payments = <<>>
    /\ mandates = <<>>
    /\ returned = NoReturns

\* state[key] = value: the key is bound to a new object
AssignKey ==
    /\ mutations < MaxMutations
    /\ \E key \in Keys : \E value \in ValuesOf(key) :
          /\ value # Deref(heap, session_state[key])
          /\ IF IsObject(value)
             THEN /\ heap' = Append(heap, value)
                  /\ session_state' = [session_state EXCEPT ![key] = Ref(Len(heap) + 1)]
             ELSE /\ session_state' = [session_state EXCEPT ![key] = value]
                  /\ UNCHANGED heap
    /\ mutations' = mutations + 1
    /\ UNCHANGED <<initial_state, tracker, sent_flags, artifacts, errors, request,
                   session, pc, task_state, statuses, last_function_name, image,
                   exception, history, cart_items, ledgerVars>>

\* state[key].append(x), state[key].clear(), state[key][field] = x, ...:
\* the object the key is bound to gets new contents
MutateInPlace ==
    /\ mutations < MaxMutations
    /\ \E key \in Keys : \E value \in ValuesOf(key) :
          /\ session_state[key].kind = "ref"
          /\ value.kind = heap[session_state[key].v].kind
          /\ value # heap[session_state[key].v]
          /\ heap' = [heap EXCEPT ![session_state[key].v] = value]
    /\ mutations' = mutations + 1
    /\ UNCHANGED <<session_state, initial_state, tracker, sent_flags, artifacts,
                   errors, request, session, pc, task_state, statuses,
                   last_function_name, image, exception, history, cart_items, ledgerVars>>

\* stream_if_changed on the state as it reads now, against the tracker's
\* attributes as they read now
StreamByReference ==
    \E artifact_type \in Categories, add_ok \in BOOLEAN :
        LET r == stream_if_changed(TrackerNow, sent_flags, artifact_type,
                                   Load(heap, session_state), add_ok)
        IN  /\ sent_flags' = r.flags
            /\ artifacts' = artifacts \o r.pushed
            /\ errors' = IF r.exc = "caught" THEN errors \cup {artifact_type} ELSE errors
            /\ UNCHANGED <<session_state, initial_state, tracker, mutations, heap,
                           request, session, pc, task_state, statuses,
                           last_function_name, image, exception, history, cart_items, ledgerVars>>

NextHeap == AssignKey \/ MutateInPlace \/ StreamByReference

SpecHeap == InitHeap /\ [][NextHeap]_vars

\* C13 as claimed: whatever is done to the session state after the tracker
\* was constructed (a tracked key re-assigned, a tracked list or dict
\* mutated in place), the tracker's initial_* attributes read what they
\* read at construction.
C13_SnapshotImmutable == TrackerNow = StateTracker(initial_state)

\* ------------------------------------------------------------ order of the artifacts

\* the place of a category in the order of ensure_all_sent
Rank(name) == CHOOSE i \in 1..Len(SweepOrder) : SweepOrder[i] = name

\* the data artifacts of log follow the order of ensure_all_sent
Ordered(log) ==
    \A i, j \in 1..Len(log) :
        (i < j /\ log[i].name \in Categories /\ log[j].name \in Categories) =>
            Rank(log[i].name) < Rank(log[j].name)

MaxCalls == 4

\* the names _extract_function_name may return: the tools of the table, a
\* tool the table does not know, and None
CallNames == DOMAIN TOOL_STATUS_MESSAGES \cup {"unknown_function", "None"}

handle_function_call_tracks_unknown(status_messages, last, function_name, update_ok) ==
    IF function_name = "None"
    THEN [ret |-> "None", emitted |-> <<>>, last |-> last, raised |-> NoException]
    ELSE IF function_name # last /\ function_name \in DOMAIN status_messages
    THEN IF update_ok
         THEN [ret |-> function_name,
               emitted |-> <<Status("working", Text(status_messages[function_name]), FALSE)>>,
               last |-> function_name,
               raised |-> NoException]
         ELSE [ret |-> "None", emitted |-> <<>>, last |-> last,
               raised |-> Exception("update_status")]
    ELSE [ret |-> "None", emitted |-> <<>>, last |-> function_name, raised |-> NoException]

\* handle_function_call: the name it returns, the status update it sends,
\* last_function_name afterwards, and the exception of update_status
handle_function_call(status_messages, last, function_name, update_ok) ==
    IF function_name = "None"
    THEN [ret |-> "None", emitted |-> <<>>, last |-> last, raised |-> NoException]
    ELSE IF function_name # last /\ function_name \in DOMAIN status_messages
    THEN IF update_ok
         THEN [ret |-> function_name,
               emitted |-> <<Status("working", Text(status_messages[function_name]), FALSE)>>,
               last |-> function_name,
               raised |-> NoException]
         ELSE [ret |-> "None", emitted |-> <<>>, last |-> last,
               raised |-> Exception("update_status")]
    ELSE [ret |-> "None", emitted |-> <<>>, last |-> last, raised |-> NoException]

\* StatusMessageHandler(TOOL_STATUS_MESSAGES) has just been constructed
InitStatus ==
    /\ session_state = EmptyState
    /\ initial_state = EmptyState
    /\ tracker = Snapshot(EmptyState)
    /\ sent_flags = NoFlags
    /\ artifacts = <<>>
    /\ errors = {}
    /\ mutations = 0
    /\ request = NoRequest
    /\ session = "stored"
    /\ pc = "running"
    /\ task_state = "working"
    /\ statuses = <<>>
    /\ last_function_name = "None"
    /\ image = "None"
    /\ exception = NoException
    /\ history = <<>>
    /\ heap = NoHeap
    /\ cart_items = NoCartItems
    /\ orders = <<>>
    /\ payments = <<>>
    /\ mandates = <<>>
    /\ returned = NoReturns

\* one call of handle_function_call; history keeps the names it returned
HandleFunctionCall ==
    /\ pc = "running"
    /\ mutations < MaxCalls
    /\ \E function_name \in CallNames, update_ok \in BOOLEAN :
          LET r == handle_function_call(TOOL_STATUS_MESSAGES, last_function_name,
                                        function_name, update_ok)
          IN  /\ statuses' = statuses \o r.emitted
              /\ last_function_name' = r.last
              /\ exception' = r.raised
              /\ pc' = IF r.raised # NoException THEN "raised" ELSE pc
              /\ history' = Append(history, r.ret)
    /\ mutations' = mutations + 1
    /\ UNCHANGED <<session_state, initial_state, tracker, sent_flags, artifacts,
                   errors, request, session, task_state, image, heap, cart_items,
                   ledgerVars>>

NextStatus == HandleFunctionCall

SpecStatus == InitStatus /\ [][NextStatus]_vars

\* the status update of a tool of the table
StatusOf(function_name) ==
    Status("working", Text(TOOL_STATUS_MESSAGES[function_name]), FALSE)

\* C16: a call emits a status update exactly when its name is in the table
\* and differs from last_function_name; a call with an unknown name or
\* without a name emits nothing and leaves last_function_name alone;
\* last_function_name is the name of the most recent call that emitted, and
\* no two consecutive status updates are those of the same function.
C16_StatusOnNewKnownName ==
    /\ \A function_name \in CallNames :
          LET r == handle_function_call(TOOL_STATUS_MESSAGES, last_function_name,
                                        function_name, TRUE)
              due == /\ function_name \in DOMAIN TOOL_STATUS_MESSAGES
                     /\ function_name # last_function_name
          IN  /\ due => r.emitted = <<StatusOf(function_name)>>
                        /\ r.last = function_name /\ r.ret = function_name
              /\ ~due => r.emitted = <<>> /\ r.last = last_function_name
                         /\ r.ret = "None"
    /\ IF statuses = <<>> THEN last_function_name = "None"
       ELSE /\ last_function_name \in DOMAIN TOOL_STATUS_MESSAGES
            /\ statuses[Len(statuses)] = StatusOf(last_function_name)
    /\ \A i \in 1..(Len(statuses) - 1) : statuses[i] # statuses[i + 1]
    /\ Len(statuses) = Cardinality({i \in 1..Len(history) : history[i] # "None"})

\* add_to_cart, an unknown tool, add_to_cart again, then create_order: two
\* status updates
C16_Witness ==
    /\ history = <<"add_to_cart", "None", "None", "create_order">>
    /\ statuses = <<StatusOf("add_to_cart"), StatusOf("create_order")>>
    /\ last_function_name = "create_order"

\* ------------------------------------------------------------ consecutive turns of one session

\* how many turns (calls of execute()) the session sees
MaxTurns == 2

\* the first message of a conversation, or a message on a session that
\* earlier turns left populated
InitTurns ==
    /\ request = Request(TRUE, "none", TRUE, "", 0)
    /\ session \in {"missing", "stored"}
    /\ session_state \in (IF session = "missing" THEN {EmptyState}
                          ELSE {EmptyState, PopulatedState})
    /\ initial_state = EmptyState
    /\ tracker = Snapshot(EmptyState)
    /\ sent_flags = NoFlags
    /\ artifacts = <<>>
    /\ errors = {}
    /\ mutations = 0
    /\ pc = "start"
    /\ task_state = "none"
    /\ statuses = <<>>
    /\ last_function_name = "None"
    /\ image = "None"
    /\ exception = NoException
    /\ history = <<>>
    /\ heap = NoHeap
    /\ cart_items = NoCartItems
    /\ orders = <<>>
    /\ payments = <<>>
    /\ mandates = <<>>
    /\ returned = NoReturns

\* execute() has returned or raised and is called again for the next
\* message of the conversation: a new task and a new channel, the session
\* and its state as the turn left them. Whatever execute() kept in locals
\* (flags, snapshot) is whatever the new call makes of it.
NextTurn ==
    /\ pc \in {"done", "raised"}
    /\ Len(history) + 1 < MaxTurns
    /\ history' = Append(history, artifacts)
    /\ artifacts' = <<>>
    /\ statuses' = <<>>
    /\ task_state' = "none"
    /\ exception' = NoException
    /\ pc' = "start"
    /\ UNCHANGED <<session_state, initial_state, tracker, sent_flags, errors,
                   mutations, request, session, last_function_name, image>>
    /\ UNCHANGED storeVars

\* the Runner's steps are counted over the whole session
NextTurns ==
    \/ Receive
    \/ Bootstrap
    \/ RunnerMutate
    \/ Event
    \/ RunnerRaises
    \/ FinalSweep
    \/ Complete
    \/ OnError
    \/ NextTurn

SpecTurns == InitTurns /\ [][NextTurns]_vars

\* the category's current value can be sent: it is present and non-empty,
\* and an order carries another order_id than the order of the turn's start
Sendable(c) ==
    /\ \E key \in KeysOf(c) : Has(session_state, key)
    /\ Truthy(Slice(c, session_state))
    /\ c = "order" =>
          \/ ~Truthy(TurnStart(c))
          \/ OrderId(Slice(c, session_state).v) # OrderId(TurnStart(c).v)

C17_FormattersNeverRaise ==
    /\ format_cart(session_state) # Raised
    /\ format_order_summary(session_state) # Raised
    /\ format_order(session_state) # Raised

\* C18 as claimed: format_order_summary returns None only when
\* pending_order_summary is missing, None or not a dict; for every dict,
\* the empty one included, it returns the payload, with the defaults for
\* the fields the dict lacks.
C18_SummaryNoneOnlyWhenInvalid ==
    LET summary_data == Get(session_state, "pending_order_summary", PyNone)
        result == format_order_summary(session_state)
    IN  IF IsDict(summary_data)
        THEN result = PyDict([type |-> "order_summary",
                              items |-> Field(summary_data.v, "items", <<>>),
                              total_amount |-> Field(summary_data.v, "total_amount", 0),
                              shipping_address |->
                                  Field(summary_data.v, "shipping_address", ""),
                              item_count |-> Field(summary_data.v, "item_count", 0)])
        ELSE result = PyNone

\* C19 as claimed: the products of the session state are formatted alike by
\* ArtifactFormatter.format_products (which the inline format_products of
\* agent_executor.py repeats) and by the inline format_products of
\* a2a_executor.py, the price being float(price_usd_units), 0.0 without one.
C19_SamePricePayloads ==
    LET current_results == Get(session_state, "current_results", EmptyList)
    IN  IsList(current_results) =>
            /\ a2a_format_products(current_results.v) = format_products(current_results.v)
            /\ \A i \in 1..Len(current_results.v) :
                  LET price_usd_units ==
                          Field(current_results.v[i], "price_usd_units", NoNum)
                  IN  a2a_format_products(current_results.v)[i].price =
                          IF price_usd_units.kind = "num"
                          THEN ToFloat(price_usd_units.n) ELSE 0

\* ------------------------------------------------------------ cart tools

\* the largest quantity a call asks for
MaxQuantity == 2

\* the quantities a call may ask for: negative, zero, positive
Quantities == -1..MaxQuantity

\* the catalog: the price_usd_units of a product, 0 for a product without
Catalog == [p1 |-> 49, p2 |-> 0]

\* the products find_product_in_results may match, "None" when it raises
Descriptions == {"first", "second", "", "no match"}

find_product_in_results(state, description) ==
    LET current_results == Get(state, "current_results", EmptyList)
    IN  IF ~Truthy(current_results) THEN "None"
        ELSE IF description = "first" THEN current_results.v[1].id
        ELSE IF description = "second" /\ Len(current_results.v) > 1
        THEN current_results.v[2].id
        ELSE "None"

\* if quantity <= 0: raise ValueError
QuantityRejected_negative_only(quantity) == quantity < 0

QuantityRejected(quantity) == quantity <= 0

\* the dict a tool builds of a row of cart_items
CartLine(item) ==
    [cart_item_id |-> item.cart_item_id,
     product_id |-> item.product_id,
     quantity |-> item.quantity,
     price |-> Catalog[item.product_id],
     subtotal |-> Num(Catalog[item.product_id] * item.quantity)]

\* the list a tool assigns to state["cart"]: the rows of the session, the
\* newest first
CartOf(rows) == PyList([i \in 1..Len(rows) |-> CartLine(rows[i])])

ToolCall(tool, quantity) == [tool |-> tool, quantity |-> quantity]

\* a session with search results and an empty cart_items table
InitCart ==
    /\ session_state \in {EmptyState,
                          [EmptyState EXCEPT !["current_results"] =
                              PyList(<<[id |-> "p1"], [id |-> "p2"]>>)]}
    /\ initial_state = session_state
    /\ tracker = Snapshot(session_state)
    /\ sent_flags = NoFlags
    /\ artifacts = <<>>
    /\ errors = {}
    /\ mutations = 0
    /\ request = ToolCall("None", 1)
    /\ session = "stored"
    /\ pc = "running"
    /\ task_state = "working"
    /\ statuses = <<>>
    /\ last_function_name = "None"
    /\ image = "None"
    /\ exception = NoException
    /\ history = <<>>
    /\ heap = NoHeap
    /\ cart_items = NoCartItems
    /\ orders = <<>>
    /\ payments = <<>>
    /\ mandates = <<>>
    /\ returned = NoReturns

\* what every cart tool leaves alone
toolFrame == <<initial_state, tracker, sent_flags, artifacts, errors, session, pc,
               task_state, statuses, last_function_name, image, history, heap,
               ledgerVars>>

\* a tool that raises: the with block rolls the table back
ToolRaises(message) ==
    /\ exception' = Exception(message)
    /\ UNCHANGED cart_items

\* a tool that reaches the end of its with block: state["cart"] is assigned
\* the rows its query has seen, then the commit writes rows, or fails and
\* rolls back. The session is made with autoflush=False: a query sees
\* neither a row that db.add() holds pending nor the removal that
\* db.delete() holds pending, and it returns a loaded row with the
\* attributes assigned to it.
ToolReturns(seen, rows, commit_ok) ==
    /\ session_state' = [session_state EXCEPT !["cart"] = CartOf(seen)]
    /\ cart_items' = IF commit_ok THEN rows ELSE cart_items
    /\ exception' = IF commit_ok THEN NoException ELSE Exception("commit")

add_to_cart ==
    /\ mutations < MaxMutations
    /\ \E product_description \in Descriptions, quantity \in Quantities,
          in_catalog \in BOOLEAN, commit_ok \in BOOLEAN :
          LET product_id == find_product_in_results(session_state, product_description)
              cart_item == [cart_item_id |-> mutations + 1,
                            product_id |-> product_id,
                            quantity |-> quantity]
          IN  /\ request' = ToolCall("add_to_cart", quantity)
              /\ IF QuantityRejected(quantity)
                 THEN ToolRaises("Quantity must be greater than 0")
                      /\ UNCHANGED session_state
                 ELSE IF product_description = ""
                 THEN ToolRaises("product_description cannot be empty")
                      /\ UNCHANGED session_state
                 ELSE IF product_id = "None"
                 THEN ToolRaises("No search results found") /\ UNCHANGED session_state
                 ELSE IF ~in_catalog
                 THEN ToolRaises("Product not found") /\ UNCHANGED session_state
                 ELSE ToolReturns(cart_items, <<cart_item>> \o cart_items, commit_ok)
    /\ mutations' = mutations + 1
    /\ UNCHANGED toolFrame

get_cart ==
    /\ mutations < MaxMutations
    /\ \E commit_ok \in BOOLEAN : ToolReturns(cart_items, cart_items, commit_ok)
    /\ request' = ToolCall("get_cart", 1)
    /\ mutations' = mutations + 1
    /\ UNCHANGED toolFrame

\* the ids a call may name: those of the rows, and one of no row
CartItemIds == {cart_items[i].cart_item_id : i \in 1..Len(cart_items)} \cup {0}

update_cart_item ==
    /\ mutations < MaxMutations
    /\ \E cart_item_id \in CartItemIds, quantity \in Quantities, commit_ok \in BOOLEAN :
          /\ request' = ToolCall("update_cart_item", quantity)
          /\ IF QuantityRejected(quantity)
             THEN ToolRaises("Quantity must be greater than 0")
                  /\ UNCHANGED session_state
             ELSE IF cart_item_id = 0
             THEN ToolRaises("Cart item not found") /\ UNCHANGED session_state
             ELSE LET rows == [i \in 1..Len(cart_items) |->
                                 IF cart_items[i].cart_item_id = cart_item_id
                                 THEN [cart_items[i] EXCEPT !.quantity = quantity]
                                 ELSE cart_items[i]]
                  IN  ToolReturns(rows, rows, commit_ok)
    /\ mutations' = mutations + 1
    /\ UNCHANGED toolFrame

remove_from_cart ==
    /\ mutations < MaxMutations
    /\ \E cart_item_id \in CartItemIds, commit_ok \in BOOLEAN :
          IF cart_item_id = 0
          THEN ToolRaises("Cart item not found") /\ UNCHANGED session_state
          ELSE ToolReturns(
                 cart_items,
                 SelectSeq(cart_items, LAMBDA item : item.cart_item_id # cart_item_id),
                 commit_ok)
    /\ request' = ToolCall("remove_from_cart", 1)
    /\ mutations' = mutations + 1
    /\ UNCHANGED toolFrame

\* clear_cart assigns [] to state["cart"]
clear_cart ==
    /\ mutations < MaxMutations
    /\ \E commit_ok \in BOOLEAN : ToolReturns(<<>>, <<>>, commit_ok)
    /\ request' = ToolCall("clear_cart", 1)
    /\ mutations' = mutations + 1
    /\ UNCHANGED toolFrame

NextCart ==
    \/ add_to_cart
    \/ get_cart
    \/ update_cart_item
    \/ remove_from_cart
    \/ clear_cart

SpecCart == InitCart /\ [][NextCart]_vars

\* the lines of state["cart"]
CartLines == Get(session_state, "cart", EmptyList).v

\* C20: every row of cart_items and every line of state["cart"] has a
\* quantity above 0; add_to_cart and update_cart_item called with a
\* quantity of 0 or less raise the ValueError and leave the table and
\* state["cart"] as they were; a row's quantity is written by these two
\* tools only.
C20_QuantityPositive ==
    /\ [](/\ \A i \in 1..Len(cart_items) : cart_items[i].quantity > 0
          /\ \A i \in 1..Len(CartLines) : CartLines[i].quantity > 0)
    /\ [][/\ (request'.tool \in {"add_to_cart", "update_cart_item"}
                /\ request'.quantity <= 0) =>
                  /\ exception' = Exception("Quantity must be greater than 0")
                  /\ UNCHANGED <<cart_items, session_state>>
          /\ request'.tool \notin {"add_to_cart", "update_cart_item"} =>
                \A i \in 1..Len(cart_items') :
                    \E j \in 1..Len(cart_items) : cart_items'[i] = cart_items[j]]_vars

\* a row was added, and the update of its quantity to 0 was refused
C20_Witness ==
    /\ request = ToolCall("update_cart_item", 0)
    /\ exception = Exception("Quantity must be greater than 0")
    /\ Len(cart_items) = 1
    /\ cart_items[1].quantity = MaxQuantity

\* ------------------------------------------------------------ claims: StateTracker

\* .get("order_id") of an order, None for a dict without the field
OrderIdOf(order) == Field(order.v, "order_id", "None")

\* C24: has_order_changed returns True exactly when current_order is not
\* None, differs from the snapshot's order, and the snapshot's order is
\* None or has another order_id; empty dicts and orders without order_id
\* included.
C24_OrderChangedIff ==
    LET current_order == Get(session_state, "current_order", PyNone)
    IN  has_order_changed(tracker, session_state) =
            PyBool(/\ current_order.kind # "none"
                   /\ current_order # tracker.initial_order
                   /\ \/ tracker.initial_order.kind = "none"
                      \/ OrderIdOf(current_order) # OrderIdOf(tracker.initial_order))

\* C25: every has_<category>_changed predicate returns True or False.
C25_PredicatesReturnBooleans ==
    \A result \in {has_products_changed(tracker, session_state),
                   has_cart_changed(tracker, session_state),
                   has_order_changed(tracker, session_state),
                   has_order_summary_changed(tracker, session_state),
                   has_payment_methods_changed(tracker, session_state),
                   has_payment_method_selection_changed(tracker, session_state)} :
        result \in {PyTrue, PyFalse}

\* ------------------------------------------------------------ claims: the cart in the state

CartTools == {"add_to_cart", "get_cart", "update_cart_item", "remove_from_cart",
              "clear_cart"}

\* C26: after a cart tool has returned, state["cart"] lists the rows of the
\* session's cart as the tool left them.
C26_CartStateMatchesTable ==
    (request.tool \in CartTools /\ exception = NoException) =>
        session_state["cart"] = CartOf(cart_items)

\* ------------------------------------------------------------ claims: terminal outcomes

\* complete() has succeeded, or the failed status has been pushed
Terminated == \E i \in 1..Len(statuses) : statuses[i].state \in {"completed", "failed"}

\* C27: in one run of execute(), the completed status and the failed status
\* are never both pushed; once either is pushed, no artifact and no status
\* update follows; every artifact is pushed after the initial working
\* status.
C27_TerminalExclusiveFinal ==
    /\ [](\A i, j \in 1..Len(statuses) :
              ~(statuses[i].state = "completed" /\ statuses[j].state = "failed"))
    /\ [][Terminated => UNCHANGED <<artifacts, statuses>>]_vars
    /\ [][artifacts' # artifacts =>
              /\ statuses # <<>>
              /\ statuses[1] = [state |-> "working", message |-> Text(status_message),
                                final |-> FALSE]]_vars

\* a turn that pushed a text chunk and a data artifact has completed
C27_Witness ==
    /\ pc = "done"
    /\ task_state = "completed"
    /\ statuses[Len(statuses)].state = "completed"
    /\ \E i, j \in 1..Len(artifacts) :
          artifacts[i].name = "response" /\ artifacts[j].name # "response"

\* ------------------------------------------------------------ checkout and payment tools

\* how many calls of the checkout and payment tools return in a session
MaxReturns == 6

\* the keys of the session state the checkout and payment tools read and write
CheckoutKeys == Keys \cup {"payment_processed", "payment_data", "payment_mandate_id",
                           "cart_mandate_id", "shipping_address"}

\* a str that holds an id; the ids of a table are the numbers of its rows
\* (uuid4 returns an id no row has), 0 stands for None and -1 is the id of
\* no row
PyId(id) == [kind |-> "str", v |-> id]

DUMMY_PAYMENT_METHODS ==
    <<[id |-> "pm_visa_1234", type |-> "credit_card"],
      [id |-> "pm_mastercard_5678", type |-> "credit_card"]>>

\* total_amount: the sum of float(price_usd_units or 0) * quantity over the rows
RECURSIVE CartTotal(_)
CartTotal(rows) ==
    IF rows = <<>> THEN 0
    ELSE Catalog[Head(rows).product_id] * Head(rows).quantity + CartTotal(Tail(rows))

CheckoutCall(tool, order_id) == [tool |-> tool, order_id |-> order_id]

RECURSIVE SumOver(_, _)
SumOver(f, S) ==
    IF S = {} THEN 0
    ELSE LET x == CHOOSE y \in S : TRUE IN f[x] + SumOver(f, S \ {x})

\* a session with search results and empty tables of orders, payments and
\* mandates; its cart is empty, or holds the row of a first
\* add_to_cart("first", 1), which leaves state["cart"] = []
InitCheckout ==
    /\ cart_items \in {NoCartItems,
                       <<[cart_item_id |-> 1, product_id |-> "p1", quantity |-> 1]>>}
    /\ session_state =
          [[k \in CheckoutKeys |-> Absent] EXCEPT
              !["current_results"] = PyList(<<[id |-> "p1"], [id |-> "p2"]>>),
              !["cart"] = IF cart_items = NoCartItems THEN Absent ELSE EmptyList]
    /\ initial_state = session_state
    /\ tracker = Snapshot(session_state)
    /\ sent_flags = NoFlags
    /\ artifacts = <<>>
    /\ errors = {}
    /\ mutations = 0
    /\ request = CheckoutCall("None", 0)
    /\ session = "stored"
    /\ pc = "running"
    /\ task_state = "working"
    /\ statuses = <<>>
    /\ last_function_name = "None"
    /\ image = "None"
    /\ exception = NoException
    /\ history = <<>>
    /\ heap = NoHeap
    /\ orders = <<>>
    /\ payments = <<>>
    /\ mandates = <<>>
    /\ returned = NoReturns

\* what every checkout and payment tool leaves alone
checkoutFrame == <<initial_state, tracker, sent_flags, artifacts, errors, mutations,
                   session, pc, task_state, statuses, last_function_name, image,
                   history, heap>>

\* raise ValueError(message) before anything is written
Refused(tool, order_id, message) ==
    /\ request' = CheckoutCall(tool, order_id)
    /\ exception' = Exception(message)
    /\ UNCHANGED <<session_state, cart_items, ledgerVars>>

\* the tool reaches its return and the with block commits
Returns(tool, order_id) ==
    /\ SumOver(returned, CheckoutTools) < MaxReturns
    /\ request' = CheckoutCall(tool, order_id)
    /\ exception' = NoException
    /\ returned' = [returned EXCEPT ![tool] = @ + 1]

\* the commit breaks a key of the schema: the with block rolls the tables
\* back and raises; what the tool assigned to tool_context.state stays
RolledBack(tool, order_id) ==
    /\ request' = CheckoutCall(tool, order_id)
    /\ exception' = Exception("IntegrityError")
    /\ UNCHANGED <<cart_items, ledgerVars>>

prepare_order_summary ==
    /\ IF cart_items = <<>>
       THEN Refused("prepare_order_summary", 0, "Cart is empty")
       ELSE /\ session_state' =
                  [session_state EXCEPT !["pending_order_summary"] =
                      PyDict([total_amount |-> CartTotal(cart_items),
                              item_count |-> Len(cart_items)])]
            /\ Returns("prepare_order_summary", 0)
            /\ UNCHANGED <<cart_items, orders, payments, mandates>>
    /\ UNCHANGED checkoutFrame

\* no tool of the model writes available_payment_methods: the methods are
\* the hardcoded ones
select_payment_method ==
    /\ \E payment_method_id \in {"pm_visa_1234", "pm_unknown"} :
          LET available_methods ==
                  PyOr(Get(session_state, "available_payment_methods", PyNone),
                       PyList(DUMMY_PAYMENT_METHODS)).v
              found == {i \in 1..Len(available_methods) :
                            available_methods[i].id = payment_method_id}
          IN  IF found = {}
              THEN Refused("select_payment_method", 0, "Payment method not found")
              ELSE /\ session_state' =
                         [session_state EXCEPT !["selected_payment_method"] =
                             PyDict(available_methods[CHOOSE i \in found :
                                                         \A j \in found : i <= j])]
                   /\ Returns("select_payment_method", 0)
                   /\ UNCHANGED <<cart_items, orders, payments, mandates>>
    /\ UNCHANGED checkoutFrame

create_cart_mandate ==
    /\ IF cart_items = <<>>
       THEN Refused("create_cart_mandate", 0, "Cart is empty. Cannot create cart mandate.")
       ELSE LET mandate_id == Len(mandates) + 1
            IN  /\ mandates' = Append(mandates, [mandate_id |-> mandate_id,
                                                 mandate_type |-> "cart",
                                                 status |-> "pending"])
                /\ session_state' = [session_state EXCEPT !["cart_mandate_id"] =
                                        PyId(mandate_id)]
                /\ Returns("create_cart_mandate", 0)
                /\ UNCHANGED <<cart_items, orders, payments>>
    /\ UNCHANGED checkoutFrame

\* cart_mandate_id: 0 for the default None, the id of a mandate, or -1, the
\* id of no mandate
create_payment_mandate ==
    /\ \E cart_mandate_id \in -1..Len(mandates) :
          LET given == IF cart_mandate_id = 0
                       THEN Get(session_state, "cart_mandate_id", PyNone)
                       ELSE PyId(cart_mandate_id)
              selected_payment_method ==
                  Get(session_state, "selected_payment_method", PyNone)
              order_summary == Get(session_state, "pending_order_summary", PyNone)
              mandate_id == Len(mandates) + 1
          IN  IF ~Truthy(given)
              THEN Refused("create_payment_mandate", 0, "Cart mandate ID not found")
              ELSE IF ~\E i \in 1..Len(mandates) :
                          /\ mandates[i].mandate_id = given.v
                          /\ mandates[i].mandate_type = "cart"
              THEN Refused("create_payment_mandate", 0, "Cart mandate not found")
              ELSE IF ~Truthy(selected_payment_method)
              THEN Refused("create_payment_mandate", 0, "No payment method selected")
              ELSE IF ~Truthy(order_summary)
              THEN Refused("create_payment_mandate", 0, "Order summary not found")
              ELSE /\ mandates' = Append(mandates, [mandate_id |-> mandate_id,
                                                    mandate_type |-> "payment",
                                                    status |-> "pending"])
                   /\ session_state' = [session_state EXCEPT !["payment_mandate_id"] =
                                           PyId(mandate_id)]
                   /\ Returns("create_payment_mandate", 0)
                   /\ UNCHANGED <<cart_items, orders, payments>>
    /\ UNCHANGED checkoutFrame

\* the ValueError process_payment raises on the state it reads, "" for none
PaymentRefusal_mandate_only(state) ==
    IF ~Truthy(Get(state, "payment_mandate_id", PyNone))
    THEN "Payment mandate not found"
    ELSE ""

PaymentRefusal(state) ==
    IF ~Truthy(Get(state, "payment_mandate_id", PyNone))
    THEN "Payment mandate not found"
    ELSE IF ~Truthy(Get(state, "selected_payment_method", PyNone))
    THEN "No payment method selected"
    ELSE IF ~Truthy(Get(state, "pending_order_summary", PyNone))
    THEN "Order summary not found"
    ELSE ""

\* order_id: 0 for the default None, the id of an order, or -1, the id of
\* no order. The flags are assigned before the commit; the Payment row of an
\* order_id of no order breaks the foreign key of payments.order_id
process_payment ==
    /\ \E order_id \in -1..Len(orders) :
          LET payment_mandate_id == Get(session_state, "payment_mandate_id", PyNone)
              order_summary == Get(session_state, "pending_order_summary", PyNone)
              amount == Field(order_summary.v, "total_amount", 0)
              payment_id == Len(payments) + 1
              payment_data == [payment_id |-> payment_id,
                               order_id |-> order_id,
                               amount |-> amount,
                               payment_mandate_id |-> payment_mandate_id.v]
          IN  IF PaymentRefusal(session_state) # ""
              THEN Refused("process_payment", order_id, PaymentRefusal(session_state))
              ELSE IF ~\E i \in 1..Len(mandates) :
                          mandates[i].mandate_id = payment_mandate_id.v
              THEN Refused("process_payment", order_id, "Payment mandate not found")
              ELSE /\ session_state' =
                         [session_state EXCEPT !["payment_processed"] = PyTrue,
                                               !["payment_data"] = PyDict(payment_data)]
                   /\ IF order_id = -1
                      THEN RolledBack("process_payment", order_id)
                      ELSE /\ payments' =
                                 IF order_id = 0 THEN payments
                                 ELSE Append(payments,
                                             [payment_id |-> payment_id,
                                              order_id |-> order_id,
                                              amount |-> amount,
                                              payment_mandate_id |-> payment_mandate_id.v,
                                              status |-> "completed"])
                           /\ orders' = IF order_id = 0 THEN orders
                                        ELSE [orders EXCEPT ![order_id].status = "completed"]
                           /\ mandates' =
                                 [i \in 1..Len(mandates) |->
                                     IF mandates[i].mandate_id = payment_mandate_id.v
                                     THEN [mandates[i] EXCEPT !.status = "approved"]
                                     ELSE mandates[i]]
                           /\ Returns("process_payment", order_id)
                           /\ UNCHANGED cart_items
    /\ UNCHANGED checkoutFrame

\* if not payment_processed or not payment_data
PaymentRequired_never(state) == FALSE

PaymentRequired(state) ==
    \/ ~Truthy(Get(state, "payment_processed", PyFalse))
    \/ ~Truthy(Get(state, "payment_data", PyNone))

\* raise ValueError on the flags; the Order, its Payment with the payment_id and the amount of
\* payment_data, the cart rows deleted, the state reset; a payment_id that
\* process_payment has already written breaks the primary key of payments
create_order ==
    /\ IF PaymentRequired(session_state)
       THEN Refused("create_order", 0, "Payment must be processed before creating order")
       ELSE IF cart_items = <<>>
       THEN Refused("create_order", 0, "Cart is empty")
       \* payment_data["payment_id"] of what is no dict
       ELSE IF GetRaises(session_state["payment_data"])
       THEN Refused("create_order", 0, "TypeError")
       ELSE LET payment_data == session_state["payment_data"].v
                order_id == Len(orders) + 1
                total_amount == CartTotal(cart_items)
            IN  /\ session_state' =
                      [session_state EXCEPT
                          !["current_order"] = PyDict([order_id |-> order_id,
                                                       status |-> "completed",
                                                       total_amount |-> total_amount]),
                          !["shipping_address"] = PyStr,
                          !["pending_order_summary"] = PyNone,
                          !["payment_data"] = PyNone,
                          !["payment_processed"] = PyFalse]
                /\ IF \E i \in 1..Len(payments) :
                          payments[i].payment_id = payment_data.payment_id
                   THEN RolledBack("create_order", order_id)
                   ELSE /\ orders' = Append(orders, [order_id |-> order_id,
                                                     status |-> "completed",
                                                     total_amount |-> total_amount])
                        /\ payments' =
                              Append(payments,
                                     [payment_id |-> payment_data.payment_id,
                                      order_id |-> order_id,
                                      amount |-> payment_data.amount,
                                      payment_mandate_id |-> payment_data.payment_mandate_id,
                                      status |-> "completed"])
                        /\ cart_items' = <<>>
                        /\ Returns("create_order", order_id)
                        /\ UNCHANGED mandates
    /\ UNCHANGED checkoutFrame

\* create_order of app/checkout_agent: a pending order of the cart's rows,
\* total_amount 0.0, no payment asked for, the session state not touched
legacy_create_order ==
    /\ IF cart_items = <<>>
       THEN Refused("legacy_create_order", 0, "Cart is empty")
       ELSE LET order_id == Len(orders) + 1
            IN  /\ orders' = Append(orders, [order_id |-> order_id,
                                             status |-> "pending",
                                             total_amount |-> 0])
                /\ cart_items' = <<>>
                /\ Returns("legacy_create_order", order_id)
                /\ UNCHANGED <<session_state, payments, mandates>>
    /\ UNCHANGED checkoutFrame

\* if order.status not in ["pending", "processing"]
Cancellable_any == {"pending", "processing", "completed", "cancelled", "refunded"}

Cancellable == {"pending", "processing"}

\* order_id: the id of an order, or -1, the id of no order
cancel_order ==
    /\ \E order_id \in {-1} \cup 1..Len(orders) :
          IF order_id = -1
          THEN Refused("cancel_order", order_id, "Order not found")
          ELSE IF orders[order_id].status \notin Cancellable
          THEN /\ request' = CheckoutCall("cancel_order", order_id)
               /\ exception' = Text("Cannot cancel order with status: ")
                                  \o Text(orders[order_id].status)
               /\ UNCHANGED <<session_state, cart_items, ledgerVars>>
          ELSE /\ orders' = [orders EXCEPT ![order_id].status = "cancelled"]
               /\ Returns("cancel_order", order_id)
               /\ UNCHANGED <<session_state, cart_items, payments, mandates>>
    /\ UNCHANGED checkoutFrame

\* payment_id: the id of a payment, or 0, the id of no payment
refund_payment ==
    /\ \E payment_id \in {payments[i].payment_id : i \in 1..Len(payments)} \cup {0} :
          IF payment_id = 0
          THEN Refused("refund_payment", 0, "Payment not found")
          ELSE LET payment == payments[CHOOSE i \in 1..Len(payments) :
                                           payments[i].payment_id = payment_id]
               IN  /\ payments' = [i \in 1..Len(payments) |->
                                      IF payments[i].payment_id = payment_id
                                      THEN [payments[i] EXCEPT !.status = "refunded"]
                                      ELSE payments[i]]
                   /\ orders' = [orders EXCEPT ![payment.order_id].status = "refunded"]
                   /\ Returns("refund_payment", payment.order_id)
                   /\ UNCHANGED <<session_state, cart_items, mandates>>
    /\ UNCHANGED checkoutFrame

NextCheckout ==
    \/ update_cart_item
    \/ prepare_order_summary
    \/ select_payment_method
    \/ create_cart_mandate
    \/ create_payment_mandate
    \/ process_payment
    \/ create_order
    \/ legacy_create_order
    \/ cancel_order
    \/ refund_payment

SpecCheckout == InitCheckout /\ [][NextCheckout]_vars

\* ------------------------------------------------------------ claims: checkout and payment

\* the statuses the tools write to an order
OrderStatuses == {"pending", "processing", "completed", "cancelled", "refunded"}

\* the ValueErrors of cancel_order
CancelErrors ==
    {Exception("Order not found")}
        \cup {Text("Cannot cancel order with status: ") \o Text(status) :
                 status \in OrderStatuses}

\* C21: cancel_order returns only for an order of the table whose status is
\* pending or processing, and sets its status to cancelled; for an id of no
\* order and for any other status it raises ValueError and leaves the
\* table as it was; cancelling the order just cancelled raises.
C21_CancelOnlyPendingOrProcessing ==
    /\ [][request'.tool = "cancel_order" =>
            LET order_id == request'.order_id
            IN  IF /\ order_id \in 1..Len(orders)
                   /\ orders[order_id].status \in {"pending", "processing"}
                THEN /\ exception' = NoException
                     /\ orders' = [orders EXCEPT ![order_id].status = "cancelled"]
                ELSE /\ exception' \in CancelErrors
                     /\ orders' = orders]_vars
    /\ [][(/\ request.tool = "cancel_order"
           /\ exception = NoException
           /\ request' = request) => exception' \in CancelErrors]_vars

\* a pending order was cancelled, and the second cancel_order of it raised
C21_Witness ==
    /\ request.tool = "cancel_order"
    /\ request.order_id \in 1..Len(orders)
    /\ orders[request.order_id].status = "cancelled"
    /\ returned["cancel_order"] = 1
    /\ exception = Text("Cannot cancel order with status: ") \o Text("cancelled")

MandateExists ==
    /\ Truthy(Get(session_state, "payment_mandate_id", PyNone))
    /\ \E i \in 1..Len(mandates) :
          mandates[i].mandate_id = session_state["payment_mandate_id"].v

\* C23: process_payment has returned only after create_payment_mandate,
\* select_payment_method and prepare_order_summary have returned, and
\* create_payment_mandate only after create_cart_mandate has; called on a
\* state without payment_mandate_id, selected_payment_method or
\* pending_order_summary, or naming a mandate of no row, process_payment
\* raises ValueError and leaves the session state and the mandates as they
\* were.
C23_PaymentSequence ==
    /\ [](returned["process_payment"] > 0 =>
              /\ returned["create_payment_mandate"] > 0
              /\ returned["select_payment_method"] > 0
              /\ returned["prepare_order_summary"] > 0)
    /\ [](returned["create_payment_mandate"] > 0 => returned["create_cart_mandate"] > 0)
    /\ [][(/\ request'.tool = "process_payment"
           /\ \/ ~Truthy(Get(session_state, "payment_mandate_id", PyNone))
              \/ ~Truthy(Get(session_state, "selected_payment_method", PyNone))
              \/ ~Truthy(Get(session_state, "pending_order_summary", PyNone))
              \/ ~MandateExists) =>
              /\ exception' \in {Exception("Payment mandate not found"),
                                 Exception("No payment method selected"),
                                 Exception("Order summary not found")}
              /\ UNCHANGED <<session_state, mandates>>]_vars

\* a payment was processed, its order created, and the next process_payment
\* raised for want of an order summary
C23_Witness ==
    /\ returned["process_payment"] > 0
    /\ returned["create_order"] > 0
    /\ request.tool = "process_payment"
    /\ exception = Exception("Order summary not found")

\* C28: the orders create_order has created are at most as many as the
\* calls of process_payment that have returned.
C28_OrdersWithinPayments == returned["create_order"] <= returned["process_payment"]

\* C29: the Payment create_order attaches to its order has the order's
\* total_amount as its amount.
C29_PaymentAmountIsOrderTotal ==
    [][(request'.tool = "create_order" /\ exception' = NoException) =>
          /\ payments'[Len(payments')].order_id = orders'[Len(orders')].order_id
          /\ payments'[Len(payments')].amount = orders'[Len(orders')].total_amount]_vars

\* C30: process_payment raises when the payment mandate the state names has
\* the status approved.
C30_MandateUsedOnce ==
    [][(/\ request'.tool = "process_payment"
        /\ MandateExists
        /\ \E i \in 1..Len(mandates) :
              /\ mandates[i].mandate_id = session_state["payment_mandate_id"].v
              /\ mandates[i].status = "approved") =>
          exception' # NoException]_vars

====
